---- MODULE Spec2Model ----
(***************************************************************************)
(* OFZ price oracle bridge: the Provider (nonce store, signer, price       *)
(* cache, HTTP handlers) and the Publisher (discovery, deviation gate,     *)
(* publish cycle, transaction service), modelled from the Python sources.  *)
(***************************************************************************)
EXTENDS Integers, Sequences, FiniteSets, TLC

\* ------------------------------------------------------------------ bounds
\* request threads of the Provider's HTTP server (Flask serves threaded)
NumThreads == 2
\* get_next_nonce calls over one behaviour (all runs of the process)
MaxCalls == 3
\* largest price_uint given to the deviation gate on its own
MaxGatePrice == 80
\* HTTP requests the Provider serves
MaxRequests == 3
\* seconds the wall clock advances while the Provider serves
MaxTime == 2
\* update cycles of the Publisher
MaxCycles == 1
\* seconds the wall clock advances while the Publisher runs
MaxWait == 1
\* the prices of 0.001 .. MaxMilli / 1000 the two conversions are compared on
MaxMilli == 40
\* steps of the wall clock while GET /api/bonds is served
MaxAdvances == 3
\* scheduler ticks that arrive while a cycle is running
MaxTicks == 1

VARIABLES
    \* ---- Provider: nonce_manager.py
    up,             \* the Provider process is running
    current_nonce,  \* NonceManager.current_nonce
    nonce_file,     \* the file at Config.NONCE_FILE
    pc,             \* per request thread: position inside get_next_nonce
    loaded,         \* per request thread: value read by `self.current_nonce += 1`
    run_returned,   \* nonces returned by create_signature in this run, in order
    all_returned,   \* nonces returned over all runs, in order
    persisted_max,  \* highest nonce a complete nonce file has ever held
    calls,          \* get_next_nonce calls begun so far
    boot,           \* history: this run found no nonce file; a write of it failed
    \* ---- Publisher: configuration and the deviation gate
    threshold,      \* Config.PRICE_CHANGE_THRESHOLD_PERCENT (an integral float)
    gate_new,       \* should_update_price: new_price
    gate_cur,       \* should_update_price: current_price (<<>> is None)
    gate_out,       \* should_update_price: <<>> before the call, then <<result>>
    \* ---- wall clock, time.time() in whole seconds
    now,
    \* ---- Provider: cache_manager.py and app.py
    cache_file,     \* the price cache file: [kind, mtime, data]
    resp,           \* the last HTTP response the Provider sent
    requests,       \* how many HTTP requests the Provider has served
    \* ---- the chain, as the Publisher's RPC node shows it
    registry,       \* the secids whose secidToBond is not the zero address
    chain_price,    \* the price feed of each secid's bond
    tx_count,       \* eth_getTransactionCount(account, 'latest')
    pending,        \* the account's transaction in the node's pool, if any
    \* ---- Publisher: publisher.py
    cyc_pc,         \* "idle", "fetch" (fetch_offchain_prices), "process"
    cycles,         \* update cycles started
    discovered,     \* get_all_registered_secids() of this cycle
    fetch_i,        \* position of fetch_offchain_prices in discovered
    prices,         \* the dict fetch_offchain_prices builds, in insertion order
    proc_i,         \* position of run_update_cycle in prices
    attempted,      \* history: secids whose price was requested this cycle
    handled,        \* history: secids given to process_single_price_update
    last_proc,      \* history: the last process_single_price_update
    sent,           \* history: the transactions the node accepted
    aborted,        \* history: cycles that ended in run_update_cycle's except clause
    disc,           \* history: how the last get_all_registered_secids went
    \* ---- Provider: the steps of cache_manager.py, one at a time
    cache_writer,   \* cache_data: "idle", or "dumping" between open and json.dump
    cache_reader,   \* get_cached_data: "idle", or "loading" after the mtime check
    cache_read,     \* history: the last get_cached_data call
    \* ---- Provider: the two price conversions of app.py, side by side
    scale_in,       \* [m, S]: the price in thousandths and PRICE_SCALING_FACTOR
    scale_list,     \* price_uint of get_all_prices (<<>> before it is computed)
    scale_single,   \* price_uint of get_price_for_secid
    \* ---- Provider: get_registered_bonds and GET /api/bonds?onchain=true
    bonds_cache,    \* registered_bonds_cache: [timestamp, bonds]
    rb_pc,          \* per request thread: "idle", or "scan" after the TTL test
    rb_time,        \* per request thread: current_time of get_registered_bonds
    rb_last,        \* history: the last GET /api/bonds?onchain=true served
    rb_scans,       \* history: the times of the last two secidToBond scans
    \* ---- Publisher: main and the scheduler's job
    sched_started,  \* scheduler_instance.start() has been called
    extra_runs,     \* run_update_cycle instances running beside the one in cyc_pc
    dropped,        \* history: ticks the scheduler skipped
    \* ---- Provider: one quote of get_ofz_prices.py served by /api/prices/<secid>
    quote_in,       \* what the exchange answers, and PRICE_SCALING_FACTOR
    quote_out,      \* the response: its status and price_uint
    \* ---- an attestation between the signer and the contract
    signed,         \* the values create_signature signed
    submitted,      \* the values handed to the contract with that signature
    \* ---- Provider: get_current_nonce
    peeks,          \* history: the get_current_nonce calls since the last return
    \* ---- Provider: market_prices, get_price_detailed and get_price
    market_in,      \* what the exchange holds: the marketdata row, the candles, the face value
    market_out,     \* what market_prices and get_price returned
    \* ---- Publisher: the ABI file and the start of main
    abi_file,       \* the file at BOND_ORACLE_ABI_PATH
    abi_out         \* how far main got, and what load_abi_from_file gave

nonceVars == <<up, current_nonce, nonce_file, pc, loaded, run_returned,
               all_returned, persisted_max, calls, boot>>

gateVars == <<threshold, gate_new, gate_cur, gate_out>>

clockVars == <<now>>

provVars == <<cache_file, resp, requests>>

chainVars == <<registry, chain_price, tx_count, pending>>

pubVars == <<cyc_pc, cycles, discovered, fetch_i, prices, proc_i, attempted, handled,
             last_proc, sent, aborted, disc>>

cacheVars == <<cache_writer, cache_reader, cache_read>>

\* the state of the finer-grained views of the Provider and the Publisher
scaleVars == <<scale_in, scale_list, scale_single>>

bondVars == <<bonds_cache, rb_pc, rb_time, rb_last, rb_scans>>

schedVars == <<sched_started, extra_runs, dropped>>

quoteVars == <<quote_in, quote_out>>

signVars == <<signed, submitted>>

marketVars == <<market_in, market_out>>

abiVars == <<abi_file, abi_out>>

lastVars == <<peeks, marketVars, abiVars>>

laterVars == <<quoteVars, signVars, lastVars>>

extVars == <<cacheVars, scaleVars, bondVars, schedVars, laterVars>>

vars == <<nonceVars, gateVars, clockVars, provVars, chainVars, pubVars, extVars>>

\* what the nonce manager's steps, the deviation gate and the HTTP handlers
\* leave alone
notNonce == <<gateVars, clockVars, provVars, chainVars, pubVars, extVars>>
notGate == <<nonceVars, clockVars, provVars, chainVars, pubVars, extVars>>
notProvider == <<up, pc, loaded, run_returned, all_returned, calls, boot, gateVars, chainVars,
                 pubVars, extVars>>
notPublisher == <<nonceVars, gateVars, clockVars, provVars, extVars>>

Threads == 1..NumThreads

\* ---------------------------------------------------------------- helpers
Max(a, b) == IF a >= b THEN a ELSE b

Abs(a) == IF a >= 0 THEN a ELSE 0 - a

\* Optional[T]: <<>> is None, <<v>> is the value v
None == <<>>
Some(v) == <<v>>

\* ------------------------------------------- IEEE-754 binary64 arithmetic
\* A positive double is [m |-> its 53 significand bits, most significant
\* first (m[1] = 1), e |-> the exponent of m[1]]: the value is the sum of
\* m[i] * 2^(e + 1 - i).  Zero is FZero.  Only what the sources compute is
\* defined: int / int, float * int, float >= int and round(float).
FloatPrecision == 53

FZero == [m |-> <<>>, e |-> 0]

\* bits produced or consumed in one step of the long arithmetic below
Limb == 13

RECURSIVE BinOf(_)
\* the binary digits of a natural, most significant first (<<>> for 0)
BinOf(n) == IF n = 0 THEN <<>> ELSE BinOf(n \div 2) \o <<n % 2>>

\* the k binary digits of n < 2^k, most significant first
BinPad(n, k) == [i \in 1..k |-> (n \div (2 ^ (k - i))) % 2]

RECURSIVE IntOf(_)
\* the natural a bit sequence denotes
IntOf(bits) ==
    IF Len(bits) = 0 THEN 0
    ELSE IF Len(bits) = 1 THEN bits[1]
    ELSE LET h == Len(bits) \div 2
         IN IntOf(SubSeq(bits, 1, Len(bits) - h)) * (2 ^ h)
              + IntOf(SubSeq(bits, Len(bits) - h + 1, Len(bits)))

AllZero(bits) == \A i \in DOMAIN bits : bits[i] = 0

\* bits + 1, same length; all ones wraps to all zeros
IncBits(bits) ==
    LET zeros == {i \in DOMAIN bits : bits[i] = 0}
        k == IF zeros = {} THEN 0 ELSE CHOOSE i \in zeros : \A j \in zeros : j <= i
    IN [i \in DOMAIN bits |-> IF i < k THEN bits[i] ELSE IF i = k THEN 1 ELSE 0]

\* round-half-to-even of the significand `kept` (exponent e), the discarded
\* tail being above half (above), exactly half (tie) or below
RoundBits(kept, e, above, tie) ==
    IF above \/ (tie /\ kept[Len(kept)] = 1)
    THEN LET inc == IncBits(kept)
         IN IF AllZero(inc)
            THEN [m |-> <<1>> \o SubSeq(inc, 2, Len(inc)), e |-> e + 1]
            ELSE [m |-> inc, e |-> e]
    ELSE [m |-> kept, e |-> e]

RECURSIVE Normalise(_, _, _)
\* scale a / b by powers of two until b <= a < 2b; e counts the scaling
Normalise(a, b, e) ==
    IF a >= 2 * b THEN Normalise(a, 2 * b, e + 1)
    ELSE IF a < b THEN Normalise(2 * a, b, e - 1)
    ELSE <<a, b, e>>

RECURSIVE QuotientBits(_, _, _)
\* the next n quotient bits of r / b (0 <= r < b), by long division,
\* Limb bits at a step
QuotientBits(r, b, n) ==
    IF n = 0 THEN <<>>
    ELSE LET k == IF n < Limb THEN n ELSE Limb
             scaled == r * (2 ^ k)
         IN BinPad(scaled \div b, k) \o QuotientBits(scaled % b, b, n - k)

RECURSIVE QuotientRem(_, _, _)
\* the remainder left after those n bits
QuotientRem(r, b, n) ==
    IF n = 0 THEN r
    ELSE LET k == IF n < Limb THEN n ELSE Limb
         IN QuotientRem((r * (2 ^ k)) % b, b, n - k)

\* Python's int / int (true division), correctly rounded; a >= 0, b > 0
FDivInt(a, b) ==
    IF a = 0 THEN FZero
    ELSE LET n == Normalise(a, b, 0)
             r0 == n[1] - n[2]
             kept == <<1>> \o QuotientBits(r0, n[2], FloatPrecision - 1)
             rest == QuotientRem(r0, n[2], FloatPrecision - 1)
         IN RoundBits(kept, n[3], 2 * rest > n[2], 2 * rest = n[2])

RECURSIVE MulFrom(_, _, _, _)
\* bits[1..i] * c + carry, as bits (most significant first), Limb bits at a step
MulFrom(bits, c, i, carry) ==
    IF i = 0 THEN BinOf(carry)
    ELSE LET k == IF i < Limb THEN i ELSE Limb
             v == IntOf(SubSeq(bits, i - k + 1, i)) * c + carry
         IN MulFrom(bits, c, i - k, v \div (2 ^ k)) \o BinPad(v % (2 ^ k), k)

\* float * int, correctly rounded; c >= 1
FMulInt(x, c) ==
    IF x = FZero THEN FZero
    ELSE LET prod == MulFrom(x.m, c, Len(x.m), 0)
             extra == Len(prod) - FloatPrecision
             kept == SubSeq(prod, 1, FloatPrecision)
             tail == SubSeq(prod, FloatPrecision + 1, Len(prod))
             half == Len(tail) > 0 /\ tail[1] = 1
             tie == half /\ AllZero(SubSeq(tail, 2, Len(tail)))
         IN RoundBits(kept, x.e + extra, half /\ ~tie, tie)

RECURSIVE DivFrom(_, _, _)
\* the quotient bits of (r, bits) / c, as many as bits (0 <= r < c), Limb bits
\* at a step
DivFrom(bits, c, r) ==
    IF Len(bits) = 0 THEN <<>>
    ELSE LET k == IF Len(bits) < Limb THEN Len(bits) ELSE Limb
             v == r * (2 ^ k) + IntOf(SubSeq(bits, 1, k))
         IN BinPad(v \div c, k) \o DivFrom(SubSeq(bits, k + 1, Len(bits)), c, v % c)

RECURSIVE DivRem(_, _, _)
\* the remainder left after those bits
DivRem(bits, c, r) ==
    IF Len(bits) = 0 THEN r
    ELSE LET k == IF Len(bits) < Limb THEN Len(bits) ELSE Limb
             v == r * (2 ^ k) + IntOf(SubSeq(bits, 1, k))
         IN DivRem(SubSeq(bits, k + 1, Len(bits)), c, v % c)

\* float / int, correctly rounded; 1 <= c < 2^Limb
FDivByInt(x, c) ==
    IF x = FZero THEN FZero
    ELSE LET dividend == x.m \o BinPad(0, Limb + 1)
             q == DivFrom(dividend, c, 0)
             rest == DivRem(dividend, c, 0)
             lead == CHOOSE i \in DOMAIN q : q[i] = 1 /\ \A j \in 1..(i - 1) : q[j] = 0
             kept == SubSeq(q, lead, lead + FloatPrecision - 1)
             tail == SubSeq(q, lead + FloatPrecision, Len(q))
             half == Len(tail) > 0 /\ tail[1] = 1
             exact == AllZero(SubSeq(tail, 2, Len(tail))) /\ rest = 0
         IN RoundBits(kept, x.e + 1 - lead, half /\ ~exact, half /\ exact)

\* the integer part of a double below 2^30, and whether a fraction remains
FFloor(x) ==
    IF x = FZero \/ x.e < 0 THEN 0 ELSE IntOf(SubSeq(x.m, 1, x.e + 1))

FFraction(x) ==
    IF x = FZero THEN <<>>
    ELSE IF x.e < 0 THEN BinPad(0, 0 - x.e - 1) \o x.m
    ELSE SubSeq(x.m, x.e + 2, Len(x.m))

\* float >= int, for an integer t >= 0 and a double below 2^30
FGeInt(x, t) == FFloor(x) >= t

\* Python's round(float): to the nearest integer, ties to even
FRound(x) ==
    LET f == FFraction(x)
        i == FFloor(x)
        half == Len(f) > 0 /\ f[1] = 1
        tie == half /\ AllZero(SubSeq(f, 2, Len(f)))
    IN IF half /\ (~tie \/ i % 2 = 1) THEN i + 1 ELSE i

\* ------------------------------------------------- nonce file (json on disk)
\* kind: "absent" (no file), "torn" (exists, empty or partial: not JSON),
\*       "ok" (the document {"nonce": nonce})
FileAbsent == [kind |-> "absent", nonce |-> 0]
FileTorn == [kind |-> "torn", nonce |-> 0]
FileOk(n) == [kind |-> "ok", nonce |-> n]

\* no run has started yet
NoBoot == [absent |-> FALSE, io_failed |-> FALSE]

Persisted(f, m) == IF f.kind = "ok" THEN Max(m, f.nonce) ELSE m

\* NonceManager._load_nonce: the value current_nonce gets for file state f when
\* the read succeeds (readable = TRUE) or raises IOError (readable = FALSE)
LoadedNonce(f, readable) ==
    IF f.kind = "ok" /\ readable THEN f.nonce ELSE 0

\* ---------------------------------------------------------- NonceManager
\* create_signature(secid, price) with nonce=None enters get_next_nonce
Call(t) ==
    /\ up
    /\ pc[t] = "idle"
    /\ calls < MaxCalls
    /\ calls' = calls + 1
    /\ pc' = [pc EXCEPT ![t] = "load"]
    /\ UNCHANGED <<up, current_nonce, nonce_file, loaded, run_returned,
                   all_returned, persisted_max, boot>>
    /\ UNCHANGED notNonce

\* an increment that skips a value
IncrementNonce_ByTwo(n) == n + 2

\* `self.current_nonce += 1`, the read half
IncrementNonce(n) == n + 1

LoadNonce(t) ==
    /\ up
    /\ pc[t] = "load"
    /\ loaded' = [loaded EXCEPT ![t] = current_nonce]
    /\ pc' = [pc EXCEPT ![t] = "store"]
    /\ UNCHANGED <<up, current_nonce, nonce_file, run_returned, all_returned,
                   persisted_max, calls, boot>>
    /\ UNCHANGED notNonce

\* `self.current_nonce += 1`, the write half
StoreNonce(t) ==
    /\ up
    /\ pc[t] = "store"
    /\ current_nonce' = IncrementNonce(loaded[t])
    /\ pc' = [pc EXCEPT ![t] = "open"]
    /\ UNCHANGED <<up, nonce_file, loaded, run_returned, all_returned,
                   persisted_max, calls, boot>>
    /\ UNCHANGED notNonce

\* _save_nonce: open(path, 'w') truncates the file, or raises IOError (caught)
SaveOpen(t) ==
    /\ up
    /\ pc[t] = "open"
    /\ \/ /\ nonce_file' = FileTorn
          /\ pc' = [pc EXCEPT ![t] = "dump"]
          /\ boot' = boot
       \/ /\ nonce_file' = nonce_file
          /\ pc' = [pc EXCEPT ![t] = "ret"]
          /\ boot' = [boot EXCEPT !.io_failed = TRUE]
    /\ UNCHANGED <<up, current_nonce, loaded, run_returned, all_returned,
                   persisted_max, calls>>
    /\ UNCHANGED notNonce

\* _save_nonce: json.dump({"nonce": self.current_nonce}, f) and close, or
\* IOError while writing (caught), which leaves the truncated file
SaveDump(t) ==
    /\ up
    /\ pc[t] = "dump"
    /\ \/ /\ nonce_file' = FileOk(current_nonce)
          /\ boot' = boot
       \/ /\ nonce_file' = FileTorn
          /\ boot' = [boot EXCEPT !.io_failed = TRUE]
    /\ persisted_max' = Persisted(nonce_file', persisted_max)
    /\ pc' = [pc EXCEPT ![t] = "ret"]
    /\ UNCHANGED <<up, current_nonce, loaded, run_returned, all_returned, calls>>
    /\ UNCHANGED notNonce

\* `return self.current_nonce`
ReturnNonce(t) ==
    /\ up
    /\ pc[t] = "ret"
    /\ run_returned' = Append(run_returned, current_nonce)
    /\ all_returned' = Append(all_returned, current_nonce)
    /\ pc' = [pc EXCEPT ![t] = "idle"]
    /\ UNCHANGED <<up, current_nonce, nonce_file, loaded, persisted_max, calls, boot>>
    /\ UNCHANGED notNonce

\* the process dies: memory and the calls in flight are lost, the file stays
Crash ==
    /\ up
    /\ up' = FALSE
    /\ current_nonce' = 0
    /\ pc' = [t \in Threads |-> "idle"]
    /\ loaded' = [t \in Threads |-> 0]
    /\ run_returned' = <<>>
    /\ UNCHANGED <<nonce_file, all_returned, persisted_max, calls, boot>>
    /\ UNCHANGED notNonce

\* module import: _instance = NonceManager(Config.NONCE_FILE), i.e. __init__
\* and _load_nonce (with its _save_nonce when the file does not exist)
Restart ==
    /\ ~up
    /\ up' = TRUE
    /\ \E readable \in BOOLEAN, written \in {"ok", "torn", "absent"} :
          /\ current_nonce' = LoadedNonce(nonce_file, readable)
          /\ nonce_file' = IF nonce_file.kind # "absent" THEN nonce_file
                           ELSE IF written = "ok" THEN FileOk(0)
                           ELSE IF written = "torn" THEN FileTorn
                           ELSE FileAbsent
          /\ boot' = [absent |-> nonce_file.kind = "absent",
                      io_failed |-> nonce_file.kind = "absent" /\ written # "ok"]
    /\ persisted_max' = Persisted(nonce_file', persisted_max)
    /\ UNCHANGED <<pc, loaded, run_returned, all_returned, calls>>
    /\ UNCHANGED notNonce

NonceInit ==
    /\ up = FALSE
    /\ current_nonce = 0
    /\ nonce_file \in {FileAbsent} \cup {FileOk(n) : n \in 0..1}
    /\ pc = [t \in Threads |-> "idle"]
    /\ loaded = [t \in Threads |-> 0]
    /\ run_returned = <<>>
    /\ all_returned = <<>>
    /\ persisted_max = Persisted(nonce_file, 0)
    /\ calls = 0
    /\ boot = NoBoot

GateIdle ==
    /\ threshold = 1
    /\ gate_new = 0
    /\ gate_cur = None
    /\ gate_out = None

\* the document of the cache file, {"timestamp": ..., "prices": {...}}, and a
\* response: its status, route, whether ?sign was given, and its body
NoPrices == <<>>
NoData == [timestamp |-> 0, prices |-> NoPrices]
CacheAbsent == [kind |-> "absent", mtime |-> 0, data |-> NoData]
NoResponse ==
    [status |-> 0, route |-> "none", sign |-> FALSE, asked |-> FALSE, timestamp |-> 0,
     prices |-> NoPrices]

\* no discovery has run yet
NoDiscovery == [listed |-> TRUE, failed |-> <<>>]

\* no process_single_price_update has run yet
NoProc == [secid |-> "", decision |-> "none", out |-> "none", report |-> "none"]

\* the Publisher is not running and its account has sent nothing
PublisherIdle ==
    /\ registry = {}
    /\ chain_price = <<>>
    /\ tx_count = 0
    /\ pending = <<>>
    /\ cyc_pc = "idle"
    /\ cycles = 0
    /\ discovered = <<>>
    /\ fetch_i = 0
    /\ prices = <<>>
    /\ proc_i = 0
    /\ attempted = {}
    /\ handled = {}
    /\ last_proc = NoProc
    /\ sent = <<>>
    /\ aborted = 0
    /\ disc = NoDiscovery

\* no get_cached_data call has been made
NoRead == [done |-> FALSE, at |-> 0, mtime |-> 0, seen |-> "none", result |-> <<>>]

CacheIdle ==
    /\ cache_writer = "idle"
    /\ cache_reader = "idle"
    /\ cache_read = NoRead

ScaleIdle ==
    /\ scale_in = [m |-> 0, S |-> 0]
    /\ scale_list = <<>>
    /\ scale_single = <<>>

\* registered_bonds_cache as the module creates it
EmptyBondsCache == [timestamp |-> 0, bonds |-> <<>>]

NoBondsRequest ==
    [kind |-> "none", failed |-> {}, stored |-> FALSE, returned |-> <<>>, listed |-> <<>>]

BondsIdle ==
    /\ bonds_cache = EmptyBondsCache
    /\ rb_pc = [t \in Threads |-> "idle"]
    /\ rb_time = [t \in Threads |-> 0]
    /\ rb_last = NoBondsRequest
    /\ rb_scans = <<>>

SchedulerIdle ==
    /\ sched_started = FALSE
    /\ extra_runs = 0
    /\ dropped = 0

\* no quote has been asked for
NoQuote == [kind |-> "none", m |-> 0, nominal |-> <<>>, S |-> 0]

QuoteIdle ==
    /\ quote_in = NoQuote
    /\ quote_out = <<>>

NoAttestation == [secid |-> "", price |-> 0, nonce |-> 0, deadline |-> 0]

SignIdle ==
    /\ signed = NoAttestation
    /\ submitted = NoAttestation

\* get_current_nonce has not been called
NoPeeks == [count |-> 0, at |-> 0, value |-> 0]

PeekIdle == peeks = NoPeeks

\* no marketdata has been asked for
NoMarket == [row |-> <<>>, candles |-> <<>>, nominal |-> <<>>]

NoMarketOut == [done |-> FALSE]

MarketIdle ==
    /\ market_in = NoMarket
    /\ market_out = NoMarketOut

\* the Publisher has not been started
NoAbiFile == [kind |-> "none", t |-> "none", keys |-> {}, items |-> <<>>, code |-> FALSE]

NotStarted == [pc |-> "start", raised |-> "none", abi |-> <<>>]

AbiIdle ==
    /\ abi_file = NoAbiFile
    /\ abi_out = NotStarted

LastIdle == PeekIdle /\ MarketIdle /\ AbiIdle

LaterIdle == QuoteIdle /\ SignIdle /\ LastIdle

ExtIdle == CacheIdle /\ ScaleIdle /\ BondsIdle /\ SchedulerIdle /\ LaterIdle

ProviderIdle ==
    /\ now = 0
    /\ cache_file = CacheAbsent
    /\ resp = NoResponse
    /\ requests = 0

NonceStep(t) ==
    \/ Call(t)
    \/ LoadNonce(t)
    \/ StoreNonce(t)
    \/ SaveOpen(t)
    \/ SaveDump(t)
    \/ ReturnNonce(t)

NonceNext ==
    \/ \E t \in Threads : NonceStep(t)
    \/ Crash
    \/ Restart

InitNonce == NonceInit /\ GateIdle /\ ProviderIdle /\ PublisherIdle /\ ExtIdle

SpecNonce == InitNonce /\ [][NonceNext]_vars

\* the same steps when requests never overlap: a call begins only when no
\* other call is in flight
CallAlone(t) ==
    /\ \A u \in Threads : pc[u] = "idle"
    /\ Call(t)

NonceNextSeq ==
    \/ \E t \in Threads :
          \/ CallAlone(t)
          \/ LoadNonce(t)
          \/ StoreNonce(t)
          \/ SaveOpen(t)
          \/ SaveDump(t)
          \/ ReturnNonce(t)
    \/ Crash
    \/ Restart

SpecNonceSeq == InitNonce /\ [][NonceNextSeq]_vars

\* ------------------------------------------------------------ claims C1-C3
\* C1: within one run of the Provider, the nonces create_signature returns are
\* strictly increasing in the order they are returned.
C1_NonceStrictlyIncreasing ==
    \A i, j \in DOMAIN run_returned :
        i < j => run_returned[i] < run_returned[j]

\* C2: signing is serialised, so no two calls of one run (concurrent HTTP
\* requests included) return the same nonce.
C2_NoTwoCallsSameNonce ==
    \A i, j \in DOMAIN run_returned :
        i # j => run_returned[i] # run_returned[j]

\* C3: over calls, crashes (also in the middle of the file write), failed
\* file I/O and restarts, no nonce is returned twice and the persisted nonce
\* never goes backwards.
C3_NoRepeatAcrossRestarts ==
    /\ \A i, j \in DOMAIN all_returned :
          i # j => all_returned[i] # all_returned[j]
    /\ nonce_file.kind = "ok" => nonce_file.nonce >= persisted_max

\* C14: once the nonce file holds a record {"nonce": N} with N > 0, it is a
\* complete record at every instant, also during a get_next_nonce call and
\* after a crash in the middle of its write: never empty or truncated.
C14_NonceFileNeverTorn == persisted_max > 0 => nonce_file.kind # "torn"

MaxPeeks == 2

\* a get_current_nonce that takes the nonce it returns
GetCurrentNonce_Taking(n) == [value |-> n + 1, current_nonce |-> n + 1]

\* NonceManager.get_current_nonce, `return self.current_nonce`: the value
\* returned and the field afterwards
GetCurrentNonce(n) == [value |-> n, current_nonce |-> n]

\* a caller reads the counter, at any moment of the run
PeekNonce ==
    /\ up
    /\ LET at == Len(run_returned)
           count == IF peeks.at = at THEN peeks.count ELSE 0
           got == GetCurrentNonce(current_nonce)
       IN /\ count < MaxPeeks
          /\ peeks' = [count |-> count + 1, at |-> at, value |-> got.value]
          /\ current_nonce' = got.current_nonce
    /\ UNCHANGED <<up, nonce_file, pc, loaded, run_returned, all_returned, persisted_max,
                   calls, boot>>
    /\ UNCHANGED <<gateVars, clockVars, provVars, chainVars, pubVars, cacheVars, scaleVars,
                   bondVars, schedVars, quoteVars, signVars, marketVars, abiVars>>

PeekNext ==
    \/ \E t \in Threads :
          \/ CallAlone(t)
          \/ LoadNonce(t)
          \/ StoreNonce(t)
          \/ SaveOpen(t)
          \/ SaveDump(t)
          \/ ReturnNonce(t)
    \/ Crash
    \/ Restart
    \/ PeekNonce

SpecPeek == InitNonce /\ [][PeekNext]_vars

\* C39: get_current_nonce returns the current nonce and leaves the in-memory
\* nonce and the nonce file unchanged, so with any number of such calls
\* between two get_next_nonce calls the second returns the first's value
\* plus one.
C39_PeekLeavesNonceAlone ==
    /\ [](\A i \in DOMAIN run_returned :
             i > 1 => run_returned[i] = run_returned[i - 1] + 1)
    /\ [][peeks' # peeks =>
            /\ peeks'.value = current_nonce
            /\ current_nonce' = current_nonce
            /\ nonce_file' = nonce_file]_vars

\* get_next_nonce returned 1, get_current_nonce was then called twice and
\* answered 1, and the next get_next_nonce returned 2
C39_Witness ==
    /\ run_returned = <<1, 2>>
    /\ peeks = [count |-> MaxPeeks, at |-> 1, value |-> 1]

\* ------------------------------------------- PriceService.should_update_price
\* thresholds the Publisher is configured with in the model
ThresholdChoices == {1, 58}

\* (abs(new_price - current_price) / current_price) * 100, in binary64
PriceChangePercent(new, cur) == FMulInt(FDivInt(Abs(new - cur), cur), 100)

ShouldUpdatePrice(new, cur, thr) ==
    IF cur = None THEN FALSE
    ELSE IF cur[1] = 0 THEN TRUE
    ELSE FGeInt(PriceChangePercent(new, cur[1]), thr)

GateInit ==
    /\ threshold \in ThresholdChoices
    /\ gate_new \in 0..MaxGatePrice
    /\ gate_cur \in {None} \cup {Some(c) : c \in 0..MaxGatePrice}
    /\ gate_out = None

GateDecide ==
    /\ gate_out = None
    /\ gate_out' = Some(ShouldUpdatePrice(gate_new, gate_cur, threshold))
    /\ UNCHANGED <<threshold, gate_new, gate_cur>>
    /\ UNCHANGED notGate

NonceIdle ==
    /\ up = FALSE
    /\ current_nonce = 0
    /\ nonce_file = FileAbsent
    /\ pc = [t \in Threads |-> "idle"]
    /\ loaded = [t \in Threads |-> 0]
    /\ run_returned = <<>>
    /\ all_returned = <<>>
    /\ persisted_max = 0
    /\ calls = 0
    /\ boot = NoBoot

GateNext == GateDecide

InitGate == GateInit /\ NonceIdle /\ ProviderIdle /\ PublisherIdle /\ ExtIdle

SpecGate == InitGate /\ [][GateNext]_vars

\* C6: for a numeric current price, should_update_price returns true iff
\* current == 0 or |new - current| * 100 >= threshold * current.
C6_DeviationGateExact ==
    (gate_out # None /\ gate_cur # None) =>
        (gate_out[1] <=>
            (\/ gate_cur[1] = 0
             \/ Abs(gate_new - gate_cur[1]) * 100 >= threshold * gate_cur[1]))

\* ------------------------------------------------- Provider: HTTP handlers
\* One action per request; the handler runs to its response.  Prices are held
\* in thousandths (99125 is the float 99.125), the wall clock in whole seconds.

SECIDS == <<"SU1", "SU2">>

SecidSet == {SECIDS[i] : i \in DOMAIN SECIDS}

\* Config: values the environment gives the Provider
CACHE_TTL == 1
PRICE_SCALING_FACTOR == 1000
SIGNATURE_EXPIRY_SECONDS == 2
REGISTERED_BONDS_CACHE_TTL == 300

\* get_price(secid): raises, finds no price, or returns (price, is_current)
QuoteError == [t |-> "error", m |-> 0, cur |-> FALSE]
QuoteNone == [t |-> "none", m |-> 0, cur |-> FALSE]
Quote(m, c) == [t |-> "price", m |-> m, cur |-> c]
QuotePrices == {0, 1005, 99125}
Quotes == {QuoteError, QuoteNone, Quote(0, TRUE), Quote(1005, TRUE), Quote(99125, FALSE)}

\* `if price:` is false for None and for 0.0
HasPrice(q) == q.t = "price" /\ q.m # 0

\* The price is the double nearest to m / 1000; S is PRICE_SCALING_FACTOR.
\* int(round(float(price) * 100)) * (Config.PRICE_SCALING_FACTOR // 100)
ScaleListFor(m, S) == FRound(FMulInt(FDivInt(m, 1000), 100)) * (S \div 100)

\* a conversion of the single endpoint that keeps two decimals only
ScaleSingleFor_TwoDecimals(m, S) == ScaleListFor(m, S)

\* int(round(float(price) * 1000)) * (Config.PRICE_SCALING_FACTOR // 1000)
PriceUintOf(price, S) == FRound(FMulInt(price, 1000)) * (S \div 1000)

ScaleSingleFor(m, S) == PriceUintOf(FDivInt(m, 1000), S)

ScaleList(m) == ScaleListFor(m, PRICE_SCALING_FACTOR)

ScaleSingle(m) == ScaleSingleFor(m, PRICE_SCALING_FACTOR)

\* the two conversions over the prices the exchange quotes
ListPriceUint == [m \in QuotePrices |-> ScaleList(m)]
SinglePriceUint == [m \in QuotePrices |-> ScaleSingle(m)]

\* '0x' + signature_bytes.hex()
HexDigits == <<"0", "1", "2", "3", "4", "5", "6", "7",
               "8", "9", "a", "b", "c", "d", "e", "f">>

RECURSIVE BytesHex(_)
BytesHex(bytes) ==
    IF Len(bytes) = 0 THEN <<>>
    ELSE <<HexDigits[(Head(bytes) \div 16) + 1], HexDigits[(Head(bytes) % 16) + 1]>>
         \o BytesHex(Tail(bytes))

SignatureHex(bytes) == <<"0", "x">> \o BytesHex(bytes)

\* the signer's output for (secid, price, nonce, deadline): the bytes stand for
\* the 65 bytes r, s, v, a function of the signed message. encode() gives every
\* value a word of its own, big-endian; the values here fit the low four bytes
\* of their words, and the digest and the signing keep distinct words distinct.
SecidIndex(secid) == CHOOSE i \in DOMAIN SECIDS : SECIDS[i] = secid

BigEndian(n) ==
    <<(n \div 16777216) % 256, (n \div 65536) % 256, (n \div 256) % 256, n % 256>>

\* a signer whose struct leaves the deadline out
SignMessage_NoDeadline(secid, price, nonce, deadline) ==
    <<SecidIndex(secid)>> \o BigEndian(price) \o BigEndian(nonce)

SignMessage(secid, price, nonce, deadline) ==
    <<SecidIndex(secid)>> \o BigEndian(price) \o BigEndian(nonce) \o BigEndian(deadline)

\* create_signature(secid, price) with the nonce the nonce manager returned
CreateSignature(secid, price, nonce, t) ==
    [signature |-> SignatureHex(SignMessage(secid, price, nonce, t + SIGNATURE_EXPIRY_SECONDS)),
     nonce |-> nonce,
     deadline |-> t + SIGNATURE_EXPIRY_SECONDS]

PriceInfo(q, price_uint) ==
    [k \in {"price", "price_uint", "is_current_market_data", "data_source"} |->
        CASE k = "price" -> q.m
          [] k = "price_uint" -> price_uint
          [] k = "is_current_market_data" -> q.cur
          [] OTHER -> IF q.cur THEN "market_price" ELSE "daily_candle"]

WithSignature(price_info, sig) ==
    price_info @@ ("signature" :> sig.signature) @@ ("nonce" :> sig.nonce)
               @@ ("deadline" :> sig.deadline)

\* a copy that loses the price with the signature
WithoutSignature_NorPrice(price_info) ==
    [k \in (DOMAIN price_info) \ {"signature", "price"} |-> price_info[k]]

\* {k: v for k, v in price_info.items() if k != 'signature'}
WithoutSignature(price_info) ==
    [k \in (DOMAIN price_info) \ {"signature"} |-> price_info[k]]

\* an expiry test that lets a file live one second longer
CacheExpired_Late(mtime, t) == t - mtime > CACHE_TTL + 1

\* `time.time() - file_mod_time > self.ttl_seconds`
CacheExpired(mtime, t) == t - mtime > CACHE_TTL

\* a get_cached_data that hands out what it could read of a broken file
GetCachedData_TornAsData(file, t) ==
    IF file.kind = "absent" THEN None
    ELSE IF CacheExpired(file.mtime, t) THEN None
    ELSE Some(file.data)

\* CacheManager.get_cached_data at time t: None when the file is absent, older
\* than the TTL, or not a JSON document
GetCachedData(file, t) ==
    IF file.kind = "absent" THEN None
    ELSE IF CacheExpired(file.mtime, t) THEN None
    ELSE IF file.kind = "torn" THEN None
    ELSE Some(file.data)

\* CacheManager.cache_data at time t: open(..., 'w') fails and leaves the file,
\* or truncates it and json.dump completes or is cut short
CacheWrites(file, data, t) ==
    {file,
     [kind |-> "ok", mtime |-> t, data |-> data],
     [kind |-> "torn", mtime |-> t, data |-> NoData]}

\* the loop of get_all_prices over fetch_ofz_list's rows from row i on, with
\* the prices built so far and the nonce manager's counter
RECURSIVE FreshPrices(_, _, _, _, _, _)
FreshPrices(i, q, sign, nonce, t, acc) ==
    IF i > Len(SECIDS) THEN [ok |-> TRUE, prices |-> acc, nonce |-> nonce]
    ELSE LET secid == SECIDS[i]
             price_uint == ListPriceUint[q[secid].m]
             info == PriceInfo(q[secid], price_uint)
             n == IncrementNonce(nonce)
         IN IF q[secid].t = "error"
            THEN [ok |-> FALSE, prices |-> acc, nonce |-> nonce]
            ELSE IF ~HasPrice(q[secid])
            THEN FreshPrices(i + 1, q, sign, nonce, t, acc)
            ELSE IF sign
            THEN FreshPrices(i + 1, q, sign, n, t,
                     acc @@ (secid :> WithSignature(info,
                                 CreateSignature(secid, price_uint, n, t))))
            ELSE FreshPrices(i + 1, q, sign, nonce, t, acc @@ (secid :> info))

\* a handler that takes a nonce for every request it serves
NonceConsumed_EveryRequest(n) ==
    /\ current_nonce' = IncrementNonce(n)
    /\ nonce_file' = FileOk(IncrementNonce(n))
    /\ persisted_max' = Max(persisted_max, IncrementNonce(n))

\* the nonce manager after the handler's calls of get_next_nonce
NonceConsumed(n) ==
    /\ current_nonce' = n
    /\ nonce_file' = IF n = current_nonce THEN nonce_file ELSE FileOk(n)
    /\ persisted_max' = IF n = current_nonce THEN persisted_max ELSE Max(persisted_max, n)

\* get_all_prices at time t with the cache file and the nonce counter as they
\* are: fetch_ofz_list succeeds or not (listed) and get_price answers q.  The
\* result is the response, the nonce counter afterwards, and the document
\* handed to cache_data, if any.
AllPricesOutcome(file, nonce, t, sign, listed, q) ==
    LET cached == GetCachedData(file, t)
        failed == [NoResponse EXCEPT !.status = 500, !.route = "list", !.sign = sign,
                                     !.asked = TRUE]
    IN IF cached # None
       THEN [resp |-> [status |-> 200, route |-> "list", sign |-> sign, asked |-> FALSE,
                       timestamp |-> cached[1].timestamp,
                       prices |-> IF ~sign /\ DOMAIN cached[1].prices # {}
                                  THEN [s \in DOMAIN cached[1].prices |->
                                           WithoutSignature(cached[1].prices[s])]
                                  ELSE cached[1].prices],
             nonce |-> nonce, store |-> None]
       ELSE IF ~listed
       THEN [resp |-> failed, nonce |-> nonce, store |-> None]
       ELSE LET built == FreshPrices(1, q, sign, nonce, t, NoPrices)
            IN IF ~built.ok
               THEN [resp |-> failed, nonce |-> built.nonce, store |-> None]
               ELSE [resp |-> [status |-> 200, route |-> "list", sign |-> sign,
                               asked |-> TRUE, timestamp |-> t, prices |-> built.prices],
                     nonce |-> built.nonce,
                     store |-> Some([timestamp |-> t, prices |-> built.prices])]

\* the answers of the exchange a handler may meet at time t: on a cache hit
\* the exchange is not asked
ListAnswers(file, t) ==
    IF GetCachedData(file, t) # None THEN {TRUE} ELSE BOOLEAN

QuoteAnswers(file, t, secids) ==
    IF GetCachedData(file, t) # None /\ secids \subseteq DOMAIN GetCachedData(file, t)[1].prices
    THEN {QuoteNone}
    ELSE Quotes

\* GET /api/prices[?sign]
GetAllPrices(sign) ==
    /\ up
    /\ requests < MaxRequests
    /\ requests' = requests + 1
    /\ \E listed \in ListAnswers(cache_file, now),
          q \in [SecidSet -> QuoteAnswers(cache_file, now, {})] :
         LET o == AllPricesOutcome(cache_file, current_nonce, now, sign, listed, q)
         IN /\ resp' = o.resp
            /\ NonceConsumed(o.nonce)
            /\ cache_file' \in IF o.store = None THEN {cache_file}
                               ELSE CacheWrites(cache_file, o.store[1], now)
    /\ UNCHANGED <<now, notProvider>>

\* get_price_for_secid at time t, get_price answering q: the response and the
\* nonce counter afterwards
PriceForSecidOutcome(file, nonce, t, secid, sign, q) ==
    LET cached == GetCachedData(file, t)
        price_uint == SinglePriceUint[q.m]
        n == IncrementNonce(nonce)
    IN IF cached # None /\ secid \in DOMAIN cached[1].prices
       THEN LET price_info == cached[1].prices[secid]
            IN [resp |-> [status |-> 200, route |-> "single", sign |-> sign,
                          asked |-> FALSE, timestamp |-> cached[1].timestamp,
                          prices |-> (secid :>
                              IF ~sign /\ "signature" \in DOMAIN price_info
                              THEN WithoutSignature(price_info)
                              ELSE price_info)],
                nonce |-> nonce]
       ELSE IF q.t = "error"
       THEN [resp |-> [NoResponse EXCEPT !.status = 500, !.route = "single",
                                         !.sign = sign, !.asked = TRUE],
             nonce |-> nonce]
       ELSE IF ~HasPrice(q)
       THEN [resp |-> [NoResponse EXCEPT !.status = 404, !.route = "single",
                                         !.sign = sign, !.asked = TRUE],
             nonce |-> nonce]
       ELSE IF sign
       THEN [resp |-> [status |-> 200, route |-> "single", sign |-> sign,
                       asked |-> TRUE, timestamp |-> t,
                       prices |-> (secid :> WithSignature(
                           PriceInfo(q, price_uint),
                           CreateSignature(secid, price_uint, n, t)))],
             nonce |-> n]
       ELSE [resp |-> [status |-> 200, route |-> "single", sign |-> sign,
                       asked |-> TRUE, timestamp |-> t,
                       prices |-> (secid :> PriceInfo(q, price_uint))],
             nonce |-> nonce]

\* GET /api/prices/<secid>[?sign]
GetPriceForSecid(secid, sign) ==
    /\ up
    /\ requests < MaxRequests
    /\ requests' = requests + 1
    /\ \E q \in QuoteAnswers(cache_file, now, {secid}) :
         LET o == PriceForSecidOutcome(cache_file, current_nonce, now, secid, sign, q)
         IN /\ resp' = o.resp
            /\ NonceConsumed(o.nonce)
    /\ UNCHANGED <<cache_file, now, notProvider>>

\* the wall clock advances by a second, up to the given time
Tick(limit) ==
    /\ now < limit
    /\ now' = now + 1
    /\ UNCHANGED <<nonceVars, gateVars, provVars, chainVars, pubVars, extVars>>

\* the Provider is up with its nonce file loaded; nothing is cached yet
ProviderInit ==
    /\ up = TRUE
    /\ current_nonce = 0
    /\ nonce_file = FileOk(0)
    /\ pc = [t \in Threads |-> "idle"]
    /\ loaded = [t \in Threads |-> 0]
    /\ run_returned = <<>>
    /\ all_returned = <<>>
    /\ persisted_max = 0
    /\ calls = 0
    /\ boot = NoBoot
    /\ now = 0
    /\ cache_file = CacheAbsent
    /\ resp = NoResponse
    /\ requests = 0

InitProvider == ProviderInit /\ GateIdle /\ PublisherIdle /\ ExtIdle

ProviderNext ==
    \/ \E sign \in BOOLEAN : GetAllPrices(sign)
    \/ \E secid \in SecidSet, sign \in BOOLEAN : GetPriceForSecid(secid, sign)
    \/ Tick(MaxTime)

SpecProvider == InitProvider /\ [][ProviderNext]_vars

\* the price entries of the last response
SignedFields == {"signature", "nonce", "deadline"}

\* C4: a response to a request without ?sign never carries signature, nonce or
\* deadline in any price entry, also when it is served from a cached snapshot
\* that a signed request produced.
C4_UnsignedResponseHasNoSignedFields ==
    (resp.status = 200 /\ ~resp.sign) =>
        \A s \in DOMAIN resp.prices : (DOMAIN resp.prices[s]) \cap SignedFields = {}

\* what the exchange must have answered for secid s when the response is r
QuoteShownBy(r, s) ==
    IF r.status = 500 THEN QuoteError
    ELSE IF r.status = 200 /\ s \in DOMAIN r.prices
    THEN Quote(r.prices[s].price, r.prices[s].is_current_market_data)
    ELSE QuoteNone

\* the response the handler of r's request gives at time t when there is no
\* cache file at all, the exchange answering what r shows
MissResponse(r, nonce, t) ==
    IF r.route = "list"
    THEN AllPricesOutcome(CacheAbsent, nonce, t, r.sign, r.status = 200,
                          [s \in SecidSet |-> QuoteShownBy(r, s)]).resp
    ELSE LET secid == CHOOSE s \in SecidSet : r.status = 200 => s \in DOMAIN r.prices
         IN PriceForSecidOutcome(CacheAbsent, nonce, t, secid, r.sign,
                                 QuoteShownBy(r, secid)).resp

C25_UnsignedCopyKeepsTheRest ==
    [][(/\ requests' = requests + 1
        /\ resp'.route = "list"
        /\ ~resp'.sign
        /\ GetCachedData(cache_file, now) # None) =>
          LET snapshot == GetCachedData(cache_file, now)[1]
          IN /\ resp'.status = 200
             /\ resp'.timestamp = snapshot.timestamp
             /\ DOMAIN resp'.prices = DOMAIN snapshot.prices
             /\ \A s \in DOMAIN snapshot.prices :
                   /\ (DOMAIN resp'.prices[s]) \ SignedFields =
                         (DOMAIN snapshot.prices[s]) \ SignedFields
                   /\ \A k \in (DOMAIN snapshot.prices[s]) \ SignedFields :
                         resp'.prices[s][k] = snapshot.prices[s][k]]_vars

\* an unsigned list response whose entries come from a snapshot a signed
\* request stored: they are the cache's entries bar the signature
C25_Witness ==
    /\ resp.status = 200
    /\ resp.route = "list"
    /\ ~resp.sign
    /\ cache_file.kind = "ok"
    /\ resp.timestamp = cache_file.data.timestamp
    /\ DOMAIN resp.prices # {}
    /\ \A s \in DOMAIN resp.prices :
          /\ s \in DOMAIN cache_file.data.prices
          /\ "signature" \in DOMAIN cache_file.data.prices[s]
          /\ resp.prices[s] = WithoutSignature(cache_file.data.prices[s])

\* C30: every signed entry returned to a request with ?sign carries a nonce
\* that no entry of an earlier response carried, also when it is served from
\* the price cache.
C30_NonceNeverServedTwice ==
    [][(requests' = requests + 1 /\ resp'.status = 200 /\ resp'.sign) =>
          \A s \in DOMAIN resp'.prices, u \in DOMAIN resp.prices :
              ("nonce" \in DOMAIN resp'.prices[s] /\ "nonce" \in DOMAIN resp.prices[u])
                  => resp'.prices[s].nonce # resp.prices[u].nonce]_vars

\* C32: every 200 response to GET /api/prices/<secid> with ?sign carries
\* signature, nonce and deadline in its price entry, also when the entry comes
\* from a snapshot that a request without ?sign put in the cache.
C32_SignedSingleResponseComplete ==
    (resp.status = 200 /\ resp.route = "single" /\ resp.sign) =>
        \A s \in DOMAIN resp.prices : SignedFields \subseteq DOMAIN resp.prices[s]

\* the request just answered was served from the price cache
ServedFromCache ==
    /\ requests' = requests + 1
    /\ GetCachedData(cache_file, now) # None
    /\ \/ resp'.route = "list"
       \/ /\ resp'.status = 200
          /\ DOMAIN resp'.prices \subseteq DOMAIN GetCachedData(cache_file, now)[1].prices

\* C37: a request served from the price cache asks the exchange nothing,
\* takes no nonce and leaves the cache file as it is; GET /api/prices/<secid>
\* leaves the cache file as it is on a hit and on a miss.
C37_CacheHitHasNoSideEffects ==
    [][/\ ServedFromCache =>
            /\ ~resp'.asked
            /\ current_nonce' = current_nonce
            /\ nonce_file' = nonce_file
            /\ cache_file' = cache_file
       /\ (requests' = requests + 1 /\ resp'.route = "single") =>
            cache_file' = cache_file]_vars

\* a signed GET /api/prices/<secid> was answered from a snapshot cached a
\* second before, after an earlier request had taken nonce 1: the counter and
\* the cache file are as that request left them
C37_Witness ==
    /\ resp.status = 200
    /\ resp.route = "single"
    /\ resp.sign
    /\ ~resp.asked
    /\ cache_file.kind = "ok"
    /\ cache_file.mtime < now
    /\ resp.timestamp = cache_file.data.timestamp
    /\ current_nonce >= 1

\* ------------------------------------------- Provider: the price cache file
\* cache_data and get_cached_data as the steps a request thread takes on the
\* file, with one thread writing and one reading; the writer stores the
\* snapshot {"timestamp": now, "prices": {}}.
Snapshot(t) == [timestamp |-> t, prices |-> NoPrices]

\* cache_data, `open(self.cache_file, 'w')`: an IOError leaves the file as it
\* was and returns False, otherwise the file is truncated to zero bytes
CacheOpen ==
    /\ cache_writer = "idle"
    /\ \/ UNCHANGED <<cache_file, cache_writer>>
       \/ /\ cache_file' = [kind |-> "torn", mtime |-> now, data |-> NoData]
          /\ cache_writer' = "dumping"
    /\ UNCHANGED <<cache_reader, cache_read>>
    /\ UNCHANGED <<nonceVars, gateVars, clockVars, resp, requests, chainVars, pubVars,
                   scaleVars, bondVars, schedVars, laterVars>>

\* cache_data, `json.dump(data, f, indent=2)` and the close of the file: the
\* document is complete, or the thread or the process ends before it is
CacheDump ==
    /\ cache_writer = "dumping"
    /\ \/ cache_file' = [kind |-> "ok", mtime |-> now, data |-> Snapshot(now)]
       \/ cache_file' = [kind |-> "torn", mtime |-> now, data |-> NoData]
    /\ cache_writer' = "idle"
    /\ UNCHANGED <<cache_reader, cache_read>>
    /\ UNCHANGED <<nonceVars, gateVars, clockVars, resp, requests, chainVars, pubVars,
                   scaleVars, bondVars, schedVars, laterVars>>

\* get_cached_data up to the expiry test: os.path.exists, os.path.getmtime and
\* the comparison with time.time()
CacheStat ==
    /\ cache_reader = "idle"
    /\ IF cache_file.kind = "absent"
       THEN /\ cache_read' = [done |-> TRUE, at |-> now, mtime |-> 0,
                              seen |-> "absent", result |-> None]
            /\ UNCHANGED cache_reader
       ELSE IF CacheExpired(cache_file.mtime, now)
            THEN /\ cache_read' = [done |-> TRUE, at |-> now,
                                   mtime |-> cache_file.mtime,
                                   seen |-> "none", result |-> None]
                 /\ UNCHANGED cache_reader
            ELSE /\ cache_read' = [done |-> FALSE, at |-> now,
                                   mtime |-> cache_file.mtime,
                                   seen |-> "none", result |-> None]
                 /\ cache_reader' = "loading"
    /\ UNCHANGED <<cache_file, cache_writer>>
    /\ UNCHANGED <<nonceVars, gateVars, clockVars, resp, requests, chainVars, pubVars,
                   scaleVars, bondVars, schedVars, laterVars>>

\* get_cached_data, `json.load(f)`: the document of the file as it is now, or
\* None when json.load raises JSONDecodeError
CacheLoad ==
    /\ cache_reader = "loading"
    /\ cache_read' = [cache_read EXCEPT
                        !.done = TRUE,
                        !.seen = cache_file.kind,
                        !.result = GetCachedData(cache_file, cache_file.mtime)]
    /\ cache_reader' = "idle"
    /\ UNCHANGED <<cache_file, cache_writer>>
    /\ UNCHANGED <<nonceVars, gateVars, clockVars, resp, requests, chainVars, pubVars,
                   scaleVars, bondVars, schedVars, laterVars>>

InitCache == NonceIdle /\ GateIdle /\ ProviderIdle /\ PublisherIdle /\ ExtIdle

CacheNext ==
    \/ CacheOpen
    \/ CacheDump
    \/ CacheStat
    \/ CacheLoad
    \/ Tick(MaxTime)

SpecCache == InitCache /\ [][CacheNext]_vars

\* C12: get_cached_data returns a snapshot only if the file exists, holds a
\* complete JSON document and is at most CACHE_TTL old at the time of the
\* check; when the file is older than CACHE_TTL the call returns None.
C12_CacheFreshness ==
    cache_read.done =>
        /\ cache_read.result # None =>
              /\ cache_read.seen = "ok"
              /\ cache_read.at - cache_read.mtime <= CACHE_TTL
        /\ (cache_read.seen # "absent"
                /\ cache_read.at - cache_read.mtime > CACHE_TTL) =>
              cache_read.result = None

\* a call returned the snapshot of a file that was exactly CACHE_TTL old, and
\* another returned None for an older file
C12_Witness ==
    /\ cache_read.done
    /\ cache_read.result # None
    /\ cache_read.at - cache_read.mtime = CACHE_TTL

\* C13: a get_cached_data that runs while cache_data is writing, or after a
\* writer was cut short, never observes a half-written file.
C13_NeverObservesPartialWrite == cache_read.done => cache_read.seen # "torn"

\* ------------------------------------- Provider: the two price conversions
\* the scaling factors and the prices, in thousandths, the conversions are
\* compared on: the small prices and the ones the exchange quotes
ScalingFactors == {1000, 3000, 1000000}

ScalePrices == (1..MaxMilli) \cup (QuotePrices \ {0})

ScaleInit ==
    /\ scale_in \in [m : ScalePrices, S : ScalingFactors]
    /\ scale_list = <<>>
    /\ scale_single = <<>>

\* get_all_prices computes price_uint for the price (`if price:` holds)
ConvertList ==
    /\ scale_list = <<>>
    /\ scale_list' = Some(ScaleListFor(scale_in.m, scale_in.S))
    /\ UNCHANGED <<scale_in, scale_single>>
    /\ UNCHANGED <<nonceVars, gateVars, clockVars, provVars, chainVars, pubVars, cacheVars,
                   bondVars, schedVars, laterVars>>

\* get_price_for_secid computes price_uint for the same price
ConvertSingle ==
    /\ scale_single = <<>>
    /\ scale_single' = Some(ScaleSingleFor(scale_in.m, scale_in.S))
    /\ UNCHANGED <<scale_in, scale_list>>
    /\ UNCHANGED <<nonceVars, gateVars, clockVars, provVars, chainVars, pubVars, cacheVars,
                   bondVars, schedVars, laterVars>>

InitScale ==
    /\ NonceIdle /\ GateIdle /\ ProviderIdle /\ PublisherIdle
    /\ CacheIdle /\ BondsIdle /\ SchedulerIdle /\ LaterIdle /\ ScaleInit

ScaleNext ==
    \/ ConvertList
    \/ ConvertSingle

SpecScale == InitScale /\ [][ScaleNext]_vars

\* C19: for the same price with at most three decimals, the list endpoint and
\* the single endpoint compute the same price_uint.
C19_EndpointsAgree ==
    (scale_list # <<>> /\ scale_single # <<>>) => scale_list[1] = scale_single[1]

\* C20: for a price p with at most three decimals and a scaling factor S that
\* is a multiple of 1000, the price_uint of the single endpoint divided by
\* S / 1000 and then by 1000 is p again.
C20_ScalingRoundTrip ==
    scale_single # <<>> =>
        LET k == scale_in.S \div 1000
            scaled == scale_single[1]
        IN /\ scaled % k = 0
           /\ FDivInt(scaled \div k, 1000) = FDivInt(scale_in.m, 1000)

\* the round trip of 99.125, which has no exact double, under S = 3000
C20_Witness ==
    /\ scale_single # <<>>
    /\ scale_in = [m |-> 99125, S |-> 3000]
    /\ scale_single[1] = 297375

\* ------------------------- Provider: one quote, from the exchange to price_uint
\* What the exchange answers for a secid: no market-data row at all ("no_row",
\* a secid it does not know), a row with a price of m thousandths of a percent
\* ("market"), a row without a price and a candle closing at m ("candle"), or
\* a row without a price and no candle ("nothing"); and the face value of the
\* bond's description, None when the description has none.
QuoteKinds == {"no_row", "market", "candle", "nothing"}

FaceValues == {None, Some(0), Some(100), Some(1000)}

\* market_prices: `js["data"][0]` raises IndexError when there is no row
MarketPrices(q) ==
    IF q.kind = "no_row" THEN [raised |-> TRUE, pct |-> None]
    ELSE IF q.kind = "market" THEN [raised |-> FALSE, pct |-> Some(q.m)]
    ELSE [raised |-> FALSE, pct |-> None]

\* `if nominal is None or nominal <= 0: nominal = 100.0`
NominalOf(face) == IF face = None \/ face[1] <= 0 THEN 100 ELSE face[1]

\* `absolute_price = (float(price_percentage) * nominal) / 100.0`
AbsolutePrice(m, nominal) == FDivByInt(FMulInt(FDivInt(m, 1000), nominal), 100)

\* get_price_detailed and get_price: the price and is_current, or the exception
GetPrice(q) ==
    LET market == MarketPrices(q)
    IN IF market.raised THEN [raised |-> TRUE, price |-> None, is_current |-> FALSE]
       ELSE IF market.pct # None
       THEN [raised |-> FALSE, is_current |-> TRUE,
             price |-> Some(AbsolutePrice(market.pct[1], NominalOf(q.nominal)))]
       ELSE IF q.kind = "candle"
       THEN [raised |-> FALSE, is_current |-> FALSE,
             price |-> Some(AbsolutePrice(q.m, NominalOf(q.nominal)))]
       ELSE [raised |-> FALSE, price |-> None, is_current |-> FALSE]

\* get_price_for_secid on a cache miss: 500 from `except Exception`, 404 when
\* `if price:` fails, else 200
QuoteStatus(got) ==
    IF got.raised THEN 500
    ELSE IF got.price = None \/ got.price[1] = FZero THEN 404
    ELSE 200

QuoteResponse(q) ==
    LET got == GetPrice(q)
        status == QuoteStatus(got)
    IN [status |-> status,
        price_uint |-> IF status = 200 THEN PriceUintOf(got.price[1], q.S) ELSE 0]

QuoteInit ==
    /\ quote_in \in [kind : QuoteKinds, m : ScalePrices, nominal : FaceValues,
                     S : ScalingFactors]
    /\ quote_out = <<>>

\* GET /api/prices/<secid> with nothing cached
ServeQuote ==
    /\ quote_out = <<>>
    /\ quote_out' = Some(QuoteResponse(quote_in))
    /\ UNCHANGED <<quote_in, signVars, lastVars>>
    /\ UNCHANGED <<nonceVars, gateVars, clockVars, provVars, chainVars, pubVars, cacheVars,
                   scaleVars, bondVars, schedVars>>

InitQuote ==
    /\ NonceIdle /\ GateIdle /\ ProviderIdle /\ PublisherIdle
    /\ CacheIdle /\ ScaleIdle /\ BondsIdle /\ SchedulerIdle /\ SignIdle /\ LastIdle
    /\ QuoteInit

QuoteNext == ServeQuote

SpecQuote == InitQuote /\ [][QuoteNext]_vars

\* C21: for a market quote of p percent the price_uint of
\* GET /api/prices/<secid> is round(p * 1000) * (S / 1000), whatever the face
\* value of the bond.
C21_PriceUintIsPercentage ==
    (quote_out # <<>> /\ quote_in.kind = "market") =>
        /\ quote_out[1].status = 200
        /\ quote_out[1].price_uint = quote_in.m * (quote_in.S \div 1000)

\* C28: GET /api/prices/<secid> for a secid the exchange has no market-data row
\* for answers 404, not 500.
C28_UnknownSecidNotFound ==
    (quote_out # <<>> /\ quote_in.kind = "no_row") => quote_out[1].status = 404

\* ------------------------------ Provider: the registered bonds of /api/bonds
\* The wall clock of this view starts well after 1970, so that the cache the
\* module creates (timestamp 0) is stale, and advances by a third of the TTL.
BondsEpoch == 4 * REGISTERED_BONDS_CACHE_TTL

ClockStep == REGISTERED_BONDS_CACHE_TTL \div 3

Advance(limit) ==
    /\ now + ClockStep <= limit
    /\ now' = now + ClockStep
    /\ UNCHANGED <<nonceVars, gateVars, provVars, chainVars, pubVars, extVars>>

\* the registrar registers a bond for a secid: secidToBond(secid) is no longer
\* the zero address
RegisterBond(secid) ==
    /\ secid \notin registry
    /\ registry' = registry \cup {secid}
    /\ UNCHANGED <<chain_price, tx_count, pending>>
    /\ UNCHANGED <<nonceVars, gateVars, clockVars, provVars, pubVars, extVars>>

\* `current_time - registered_bonds_cache["timestamp"] < registered_bonds_cache["ttl"]`
BondsCacheValid(cache, t) == t - cache.timestamp < REGISTERED_BONDS_CACHE_TTL

\* the loop over the candidates: a secid is appended when its secidToBond call
\* answers a non-zero address, and passed over when the call raises
RECURSIVE ScanRegistered(_, _)
ScanRegistered(candidates, failed) ==
    IF Len(candidates) = 0 THEN <<>>
    ELSE (IF Head(candidates) \in registry /\ Head(candidates) \notin failed
          THEN <<Head(candidates)>> ELSE <<>>)
         \o ScanRegistered(Tail(candidates), failed)

\* get_all_bonds with onchain=true: the rows whose secid is in registered_secids
RECURSIVE OnchainRows(_, _)
OnchainRows(rows, registered) ==
    IF Len(rows) = 0 THEN <<>>
    ELSE (IF \E i \in DOMAIN registered : registered[i] = Head(rows)
          THEN <<Head(rows)>> ELSE <<>>)
         \o OnchainRows(Tail(rows), registered)

\* what a finished GET /api/bonds?onchain=true leaves behind
BondsServed(kind, failed, stored, returned) ==
    [kind |-> kind, failed |-> failed, stored |-> stored, returned |-> returned,
     listed |-> OnchainRows(SECIDS, returned)]

\* get_registered_bonds up to the TTL test: the cached list, or on to the scan
RbCheck(t) ==
    /\ rb_pc[t] = "idle"
    /\ rb_time' = [rb_time EXCEPT ![t] = now]
    /\ IF BondsCacheValid(bonds_cache, now)
       THEN /\ rb_last' = BondsServed("cached", {}, FALSE, bonds_cache.bonds)
            /\ UNCHANGED rb_pc
       ELSE /\ rb_pc' = [rb_pc EXCEPT ![t] = "scan"]
            /\ UNCHANGED rb_last
    /\ UNCHANGED <<bonds_cache, rb_scans>>
    /\ UNCHANGED <<nonceVars, gateVars, clockVars, provVars, chainVars, pubVars,
                   cacheVars, scaleVars, schedVars, laterVars>>

\* get_registered_bonds after the TTL test: the node is not connected or
\* fetch_ofz_list raises (return [] and the cache stays), or every candidate
\* is checked, the secidToBond calls of `failed` raising, and the list found is
\* stored in the cache with the current_time taken before the test
RbScan(t) ==
    /\ rb_pc[t] = "scan"
    /\ rb_pc' = [rb_pc EXCEPT ![t] = "idle"]
    /\ \/ /\ \E kind \in {"unreachable", "list_error"} :
               rb_last' = BondsServed(kind, {}, FALSE, <<>>)
          /\ UNCHANGED <<bonds_cache, rb_scans>>
       \/ \E failed \in SUBSET SecidSet :
            LET found == ScanRegistered(SECIDS, failed)
            IN /\ bonds_cache' = [timestamp |-> rb_time[t], bonds |-> found]
               /\ rb_last' = BondsServed("scanned", failed, TRUE, found)
               /\ rb_scans' = IF Len(rb_scans) < 2 THEN Append(rb_scans, now)
                                                     ELSE <<rb_scans[2], now>>
    /\ UNCHANGED rb_time
    /\ UNCHANGED <<nonceVars, gateVars, clockVars, provVars, chainVars, pubVars,
                   cacheVars, scaleVars, schedVars, laterVars>>

BondsInit ==
    /\ now = BondsEpoch
    /\ cache_file = CacheAbsent
    /\ resp = NoResponse
    /\ requests = 0
    /\ registry \in SUBSET SecidSet
    /\ chain_price = <<>>
    /\ tx_count = 0
    /\ pending = <<>>

CycleIdle ==
    /\ cyc_pc = "idle"
    /\ cycles = 0
    /\ discovered = <<>>
    /\ fetch_i = 0
    /\ prices = <<>>
    /\ proc_i = 0
    /\ attempted = {}
    /\ handled = {}
    /\ last_proc = NoProc
    /\ sent = <<>>
    /\ aborted = 0
    /\ disc = NoDiscovery

InitBonds ==
    /\ BondsInit /\ CycleIdle /\ NonceIdle /\ GateIdle
    /\ ExtIdle

BondsNext ==
    \/ \E t \in Threads : RbCheck(t)
    \/ \E t \in Threads : RbScan(t)
    \/ \E secid \in SecidSet : RegisterBond(secid)
    \/ Advance(BondsEpoch + MaxAdvances * ClockStep)

SpecBonds == InitBonds /\ [][BondsNext]_vars

\* C15: the rescan is single-flight: of the requests that call
\* get_registered_bonds while the cache is stale, at most one is scanning.
C15_SingleFlightRescan == Cardinality({t \in Threads : rb_pc[t] = "scan"}) <= 1

\* C29: in the Provider the registered-instrument set is recomputed by a
\* full scan of secidToBond calls at most once every
\* REGISTERED_BONDS_CACHE_TTL seconds: two scans are never closer than that
C29_ScanAtMostOncePerTTL ==
    Len(rb_scans) = 2 => rb_scans[2] - rb_scans[1] >= REGISTERED_BONDS_CACHE_TTL

\* C16: a rescan that fails (node unreachable, list unavailable, or a
\* secidToBond call raising) returns the empty list and stores nothing in the
\* cache.
C16_FailedRescanNotStored ==
    (rb_last.kind \in {"unreachable", "list_error"} \/ rb_last.failed # {}) =>
        (~rb_last.stored /\ rb_last.returned = <<>>)

\* ------------------------------------------------------------ Publisher
\* JSON values as the Publisher receives them: null, a number, a string
JNull == [t |-> "null", n |-> 0, s |-> <<>>]
JInt(n) == [t |-> "int", n |-> n, s |-> <<>>]
JStr(s) == [t |-> "str", n |-> 0, s |-> s]

\* the "price" object of GET /api/prices/<secid>?sign=true; dict.get answers
\* None for a missing key as for a null
Entry(price_uint, signature, deadline, nonce) ==
    [price_uint |-> price_uint, signature |-> signature, deadline |-> deadline,
     nonce |-> nonce]

\* what the Provider signs for secid at time t: create_signature's result
Attestation(secid, price_uint, nonce, deadline) ==
    Entry(JInt(price_uint),
          JStr(SignatureHex(SignMessage(secid, price_uint, nonce, deadline))),
          JInt(deadline), JInt(nonce))

NewPrices == {100, 101}
AttestationNonces == {7}
BadHex == <<"0", "x", "z", "z">>

\* the responses the Publisher may get for secid at time t: an attestation
\* (served from the Provider's cache it may have a second left, or none), an
\* entry with a field missing or of another type, or no entry at all
GoodEntries(secid, t) ==
    {Attestation(secid, p, n, d) :
        p \in NewPrices, n \in AttestationNonces, d \in {t, t + 1}}

FlawedEntries(secid, t) ==
    LET a == Attestation(secid, 101, 7, t + 1)
    IN {[a EXCEPT !.nonce = JNull],
        [a EXCEPT !.signature = JInt(5)],
        [a EXCEPT !.signature = JStr(BadHex)],
        [a EXCEPT !.deadline = JStr(<<"1">>)]}

NoEntry == Entry(JNull, JNull, JNull, JNull)

ResponseKinds == {"http_error", "bad_json", "not_object", "no_price", "price_not_object"}

Responses(secid, t) ==
    {[kind |-> k, entry |-> NoEntry] : k \in ResponseKinds}
    \cup {[kind |-> "entry", entry |-> e] : e \in GoodEntries(secid, t)}
    \cup {[kind |-> "entry", entry |-> e] : e \in FlawedEntries(secid, t)}

\* fetch_offchain_prices, one secid: "stored" (prices[secid] = price_info),
\* "skipped" (an except clause or an empty price continues the loop), or
\* "raised" (an exception no clause of the loop catches)
FetchOutcome(r) ==
    CASE r.kind = "http_error" -> "skipped"
      [] r.kind = "bad_json" -> "skipped"
      [] r.kind = "no_price" -> "skipped"
      [] r.kind = "not_object" -> "raised"
      [] r.kind = "price_not_object" -> "raised"
      [] OTHER -> "stored"

\* bytes.fromhex
IsHex(chars) ==
    /\ Len(chars) % 2 = 0
    /\ \A i \in DOMAIN chars : \E d \in DOMAIN HexDigits : HexDigits[d] = chars[i]

HexValue(c) == (CHOOSE d \in DOMAIN HexDigits : HexDigits[d] = c) - 1

FromHex(chars) ==
    [i \in 1..(Len(chars) \div 2) |->
        16 * HexValue(chars[2 * i - 1]) + HexValue(chars[2 * i])]

\* prepare_signature: TypeError for a value that is no string, ValueError for a
\* string that is not hex, else the bytes after the optional "0x"
PrepareSignature(signature) ==
    IF signature.t # "str" THEN [ok |-> FALSE, bytes |-> <<>>]
    ELSE LET hex_to_convert ==
                 IF Len(signature.s) >= 2 /\ SubSeq(signature.s, 1, 2) = <<"0", "x">>
                 THEN SubSeq(signature.s, 3, Len(signature.s))
                 ELSE signature.s
         IN IF IsHex(hex_to_convert)
            THEN [ok |-> TRUE, bytes |-> FromHex(hex_to_convert)]
            ELSE [ok |-> FALSE, bytes |-> <<>>]

\* get_onchain_price: None for a secid whose bond address is zero
GetOnchainPrice(secid) ==
    IF secid \in registry THEN Some(chain_price[secid]) ELSE None

\* `if deadline <= current_time:`
DeadlinePassed_Strict(deadline, t) == deadline < t

DeadlinePassed(deadline, t) == deadline <= t

\* process_single_price_update up to the point where it returns, raises into
\* its own except clause, or sends: rpc_ok is whether get_onchain_price's calls
\* succeeded
PriceUpdateDecision_IgnoresGate(secid, info, onchain, rpc_ok, t) ==
    IF \E k \in DOMAIN info : info[k].t = "null" THEN "missing"
    ELSE IF ~rpc_ok THEN "error"
    ELSE IF ~PrepareSignature(info.signature).ok THEN "error"
    ELSE IF info.deadline.t # "int" THEN "error"
    ELSE IF DeadlinePassed(info.deadline.n, t) THEN "expired"
    ELSE "send"

PriceUpdateDecision(secid, info, onchain, rpc_ok, t) ==
    IF \E k \in DOMAIN info : info[k].t = "null" THEN "missing"
    ELSE IF ~rpc_ok THEN "error"
    ELSE IF ~ShouldUpdatePrice(info.price_uint.n, onchain, threshold) THEN "no_update"
    ELSE IF ~PrepareSignature(info.signature).ok THEN "error"
    ELSE IF info.deadline.t # "int" THEN "error"
    ELSE IF DeadlinePassed(info.deadline.n, t) THEN "expired"
    ELSE "send"

\* contract.functions.updatePriceFeedWithSignature(...): the call's arguments
BuildUpdatePriceTransaction_Swapped(secid, price_uint, deadline, nonce, signature_bytes) ==
    [secid |-> secid, price_uint |-> price_uint, deadline |-> nonce, nonce |-> deadline,
     signature_bytes |-> signature_bytes]

BuildUpdatePriceTransaction(secid, price_uint, deadline, nonce, signature_bytes) ==
    [secid |-> secid, price_uint |-> price_uint, deadline |-> deadline, nonce |-> nonce,
     signature_bytes |-> signature_bytes]

\* web3.get_transaction_count(): the account's count at block 'latest', which
\* leaves out the transaction waiting in the pool
GetTransactionCount == tx_count

\* _send_transaction: the node refuses the transaction, or takes it and the
\* receipt shows status 1 or 0, or no receipt comes within the timeout
SendOutcomes == {"refused", "status_1", "status_0", "timeout"}

\* a discovery that takes every candidate for registered
RegisteredOf_All(candidates) == candidates

RECURSIVE RegisteredOf(_)
RegisteredOf(candidates) ==
    IF Len(candidates) = 0 THEN <<>>
    ELSE (IF Head(candidates) \in registry THEN <<Head(candidates)>> ELSE <<>>)
         \o RegisteredOf(Tail(candidates))

\* an outer handler for the errors of the HTTP client only
RunUpdateCycleCatches_RequestsOnly(exc) == exc = "RequestException"

\* run_update_cycle, `except Exception as e:`: every exception a call of the
\* cycle raises is an Exception
RunUpdateCycleCatches(exc) ==
    exc \in {"RequestException", "AttributeError", "TypeError", "RuntimeError"}

\* where an exception raised inside the try block of run_update_cycle leaves
\* the Publisher: the call returns; uncaught, the scheduler's executor logs it
\* and keeps the job, but in the initial cycle it reaches main, which exits
AfterException(exc) ==
    IF RunUpdateCycleCatches(exc) \/ sched_started THEN "idle" ELSE "exited"

\* _send_transaction with any receipt taken for a success
SendReport_AnyReceipt(out) ==
    IF out \in {"status_1", "status_0"} THEN "success" ELSE "error"

\* _send_transaction: `return True` for a receipt with status 1; RuntimeError
\* for status 0, and the exception of the node or of the wait re-raised
SendReport(out) == IF out = "status_1" THEN "success" ELSE "error"

\* get_all_registered_secids: the candidates of GET /api/bonds whose
\* secidToBond is not the zero address.  The request for the list may fail
\* (listed = FALSE) and one secidToBond call may raise (failed): the loop has
\* no handler of its own and the function's `except Exception` returns []
GetAllRegisteredSecids(listed, failed) ==
    IF ~listed THEN <<>>
    ELSE IF failed # None THEN <<>>
    ELSE RegisteredOf(SECIDS)

\* a cycle that goes on to the requests whatever the discovery found
AfterDiscovery_GoesOn(registered_secids) == "fetch"

\* fetch_offchain_prices, `if not registered_secids: return {}`, and
\* run_update_cycle, `if not offchain_prices_data: return`
AfterDiscovery(registered_secids) ==
    IF Len(registered_secids) = 0 THEN "idle" ELSE "fetch"

\* run_update_cycle begins: get_all_registered_secids answers the registered
\* candidates, or [] when the bond list or an RPC call fails
BeginCycle(limit) ==
    /\ cyc_pc = "idle"
    /\ cycles < limit
    /\ cycles' = cycles + 1
    /\ \E listed \in BOOLEAN, failed \in {None} \cup {Some(s) : s \in SecidSet} :
         /\ listed \/ failed = None
         /\ disc' = [listed |-> listed, failed |-> failed]
         /\ discovered' = GetAllRegisteredSecids(listed, failed)
         /\ cyc_pc' = AfterDiscovery(discovered')
    /\ fetch_i' = 1
    /\ prices' = <<>>
    /\ proc_i' = 0
    /\ attempted' = {}
    /\ handled' = {}
    /\ UNCHANGED <<last_proc, sent, aborted, chainVars, notPublisher>>

StartCycle == BeginCycle(MaxCycles)

\* one turn of the loop of fetch_offchain_prices; after the last secid
\* run_update_cycle returns on an empty dict or starts processing
FetchPrice ==
    /\ cyc_pc = "fetch"
    /\ \E r \in Responses(discovered[fetch_i], now) :
         LET outcome == FetchOutcome(r)
             got == IF outcome = "stored"
                    THEN Append(prices, [secid |-> discovered[fetch_i], info |-> r.entry])
                    ELSE prices
         IN /\ prices' = got
            /\ aborted' = IF outcome = "raised" THEN aborted + 1 ELSE aborted
            /\ cyc_pc' = IF outcome = "raised" THEN AfterException("AttributeError")
                         ELSE IF fetch_i < Len(discovered) THEN "fetch"
                         ELSE IF Len(got) = 0 THEN "idle"
                         ELSE "process"
    /\ attempted' = attempted \cup {discovered[fetch_i]}
    /\ fetch_i' = fetch_i + 1
    /\ proc_i' = 1
    /\ UNCHANGED <<cycles, discovered, handled, last_proc, sent, disc, chainVars,
                   notPublisher>>

\* _send_transaction for the call built from info, read at time t with the
\* on-chain price onchain: the node's answer is out
SendTransaction(secid, info, onchain, out) ==
    LET call == BuildUpdatePriceTransaction(secid, info.price_uint.n, info.deadline.n,
                    info.nonce.n, PrepareSignature(info.signature).bytes)
        tx == [evm_nonce |-> GetTransactionCount, call |-> call, secid |-> secid,
               attested |-> info, onchain |-> onchain, at |-> now, cycle |-> cycles]
    IN IF out = "refused"
       THEN UNCHANGED <<sent, tx_count, pending, chain_price>>
       ELSE /\ sent' = Append(sent, tx)
            /\ tx_count' = IF out = "timeout" THEN tx_count ELSE tx_count + 1
            /\ pending' = IF out = "timeout"
                          THEN <<[secid |-> secid, price_uint |-> call.price_uint]>>
                          ELSE <<>>
            /\ chain_price' = IF out = "status_1"
                              THEN [chain_price EXCEPT ![secid] = call.price_uint]
                              ELSE chain_price

\* process_single_price_update for the next entry of the dict
ProcessWith(rpc_answers, node_answers) ==
    /\ cyc_pc = "process"
    /\ LET secid == prices[proc_i].secid
           info == prices[proc_i].info
           onchain == GetOnchainPrice(secid)
       IN \E rpc_ok \in rpc_answers :
            LET decision == PriceUpdateDecision(secid, info, onchain, rpc_ok, now)
            IN /\ handled' = handled \cup {secid}
               /\ IF decision = "send"
                  THEN \E out \in node_answers :
                         /\ SendTransaction(secid, info, onchain, out)
                         /\ last_proc' = [secid |-> secid, decision |-> decision,
                                          out |-> out, report |-> SendReport(out)]
                  ELSE /\ UNCHANGED <<sent, tx_count, pending, chain_price>>
                       /\ last_proc' = [NoProc EXCEPT !.secid = secid,
                                                      !.decision = decision]
    /\ proc_i' = proc_i + 1
    /\ cyc_pc' = IF proc_i < Len(prices) THEN "process" ELSE "idle"
    /\ UNCHANGED <<registry, cycles, discovered, fetch_i, prices, attempted, aborted, disc,
                   notPublisher>>

\* process_single_price_update for the next entry of the dict, the RPC calls
\* succeeding or not and the node answering the transaction in any way
ProcessSecid == ProcessWith(BOOLEAN, SendOutcomes)

\* the chain includes the waiting transaction in a block
MinePending ==
    /\ Len(pending) > 0
    /\ \E status \in {0, 1} :
         chain_price' = IF status = 1
                        THEN [chain_price EXCEPT ![pending[1].secid] = pending[1].price_uint]
                        ELSE chain_price
    /\ tx_count' = tx_count + 1
    /\ pending' = <<>>
    /\ UNCHANGED <<registry, pubVars, notPublisher>>

\* the Publisher starts with a registry and price feeds on chain
PublisherInit ==
    /\ registry \in (SUBSET SecidSet) \ {{}}
    /\ chain_price = [s \in SecidSet |-> IF s = SECIDS[1] THEN 0 ELSE 100]
    /\ tx_count = 0
    /\ pending = <<>>
    /\ cyc_pc = "idle"
    /\ cycles = 0
    /\ discovered = <<>>
    /\ fetch_i = 0
    /\ prices = <<>>
    /\ proc_i = 0
    /\ attempted = {}
    /\ handled = {}
    /\ last_proc = NoProc
    /\ sent = <<>>
    /\ aborted = 0
    /\ disc = NoDiscovery

InitPublisher == PublisherInit /\ NonceIdle /\ GateIdle /\ ProviderIdle /\ ExtIdle

PublisherNext ==
    \/ StartCycle
    \/ FetchPrice
    \/ ProcessSecid
    \/ MinePending
    \/ Tick(MaxWait)

SpecPublisher == InitPublisher /\ [][PublisherNext]_vars

\* -------------------------------------- registered and unregistered secids
\* The Provider serving GET /api/bonds?onchain=true and the Publisher running
\* its cycles over one chain on which the first candidate is or becomes
\* registered and the others have the zero address.
RegistryInit ==
    /\ now = BondsEpoch
    /\ cache_file = CacheAbsent
    /\ resp = NoResponse
    /\ requests = 0
    /\ registry \in SUBSET {SECIDS[1]}
    /\ chain_price = [s \in SecidSet |-> IF s = SECIDS[1] THEN 0 ELSE 100]
    /\ tx_count = 0
    /\ pending = <<>>

InitRegistry ==
    /\ RegistryInit /\ CycleIdle /\ NonceIdle /\ GateIdle
    /\ ExtIdle

RegistryNext ==
    \/ RbCheck(1)
    \/ RbScan(1)
    \/ RegisterBond(SECIDS[1])
    \/ Advance(BondsEpoch + MaxAdvances * ClockStep)
    \/ StartCycle
    \/ FetchPrice
    \/ ProcessSecid
    \/ MinePending

SpecRegistry == InitRegistry /\ [][RegistryNext]_vars

\* C17: a secid whose secidToBond address is the zero address is not listed by
\* /api/bonds?onchain=true, is not in the Publisher's discovered set, is not
\* requested from /api/prices/{secid}?sign=true, and has no transaction.
C17_UnregisteredSecidUntouched ==
    \A secid \in SecidSet \ registry :
        /\ \A i \in DOMAIN rb_last.listed : rb_last.listed[i] # secid
        /\ \A i \in DOMAIN discovered : discovered[i] # secid
        /\ secid \notin attempted
        /\ \A i \in DOMAIN sent : sent[i].secid # secid

\* with the second candidate unregistered, a scan listed the first candidate
\* alone and a cycle submitted a transaction for it
C17_Witness ==
    /\ SECIDS[2] \notin registry
    /\ rb_last.kind = "scanned"
    /\ rb_last.listed = <<SECIDS[1]>>
    /\ attempted = {SECIDS[1]}
    /\ Len(sent) > 0

\* ------------------------------------------------ main and the scheduler
\* main runs one cycle itself and then starts a BlockingScheduler whose
\* interval job is run_update_cycle.  add_job is given no max_instances, so
\* the scheduler's default holds: a tick is skipped while MaxInstances
\* instances of the job are running.
MaxInstances == 1

\* a scheduler that never holds a tick back
MaxInstancesReached_Never(n) == n < 0

MaxInstancesReached(n) == n >= MaxInstances

\* the run_update_cycle calls in progress
Running == (IF cyc_pc = "idle" THEN 0 ELSE 1) + extra_runs

\* `publisher_instance.run_update_cycle()` in main, before the scheduler exists
InitialCycle ==
    /\ ~sched_started
    /\ cycles = 0
    /\ StartCycle

\* `scheduler_instance.start()`, once the initial cycle has returned
SchedulerStart ==
    /\ ~sched_started
    /\ cycles > 0
    /\ cyc_pc = "idle"
    /\ sched_started' = TRUE
    /\ UNCHANGED <<extra_runs, dropped>>
    /\ UNCHANGED <<nonceVars, gateVars, clockVars, provVars, chainVars, pubVars,
                   cacheVars, scaleVars, bondVars, laterVars>>

\* the interval fires while the job has its maximum of running instances: the
\* run is skipped
TickSkipped ==
    /\ sched_started
    /\ MaxInstancesReached(Running)
    /\ dropped < MaxTicks
    /\ dropped' = dropped + 1
    /\ UNCHANGED <<sched_started, extra_runs>>
    /\ UNCHANGED <<nonceVars, gateVars, clockVars, provVars, chainVars, pubVars,
                   cacheVars, scaleVars, bondVars, laterVars>>

\* the interval fires and the executor starts run_update_cycle
TickRuns ==
    /\ sched_started
    /\ ~MaxInstancesReached(Running)
    /\ IF cyc_pc = "idle"
       THEN BeginCycle(MaxCycles + 1)
       ELSE /\ extra_runs < MaxTicks
            /\ extra_runs' = extra_runs + 1
            /\ UNCHANGED <<sched_started, dropped>>
            /\ UNCHANGED <<nonceVars, gateVars, clockVars, provVars, chainVars, pubVars,
                           cacheVars, scaleVars, bondVars, laterVars>>

SchedulerInit ==
    /\ now = 0
    /\ cache_file = CacheAbsent
    /\ resp = NoResponse
    /\ requests = 0
    /\ registry = {SECIDS[1]}
    /\ chain_price = [s \in SecidSet |-> IF s = SECIDS[1] THEN 0 ELSE 100]
    /\ tx_count = 0
    /\ pending = <<>>

InitScheduler == SchedulerInit /\ CycleIdle /\ NonceIdle /\ GateIdle /\ ExtIdle

SchedulerNext ==
    \/ InitialCycle
    \/ SchedulerStart
    \/ TickSkipped
    \/ TickRuns
    \/ FetchPrice
    \/ ProcessSecid
    \/ MinePending

SpecScheduler == InitScheduler /\ [][SchedulerNext]_vars

\* C18: at most one run_update_cycle is executing at any time; a tick that
\* arrives while a cycle is running does not start a second one.
C18_CyclesNeverOverlap == Running <= 1

\* a tick arrived while a cycle the scheduler had started was running, and was
\* skipped
C18_Witness ==
    /\ cycles > 1
    /\ cyc_pc # "idle"
    /\ dropped > 0

\* C27: once main has reached its first cycle, no failure inside a cycle ends
\* the process: a cycle that fails returns, and when the scheduler is started
\* and no cycle is running the next tick starts one.
C27_CycleFailuresContained ==
    /\ cyc_pc \in {"idle", "fetch", "process"}
    /\ (sched_started /\ cyc_pc = "idle" /\ cycles <= MaxCycles) => ENABLED TickRuns

\* the initial cycle ended in the except clause of run_update_cycle; the
\* scheduler was started all the same and its first tick has begun a cycle
C27_Witness ==
    /\ aborted = 1
    /\ sched_started
    /\ cycles = 2
    /\ cyc_pc = "fetch"
    /\ fetch_i = 1

\* --------------------------------- Provider and Publisher, running for ever
\* One registered bond whose exchange price stays far from its on-chain price,
\* the Publisher running cycle after cycle, and another client polling
\* GET /api/prices without ?sign.  The exchange, the Provider and the node
\* answer every request.  Times are kept relative to the present: `now` stays
\* where it is and a second that passes makes the cache file a second older,
\* down to an age at which it is expired whatever comes.  A cycle takes less
\* than a second.  Everything stops once a transaction has been submitted.
LiveQuotes == {Quote(1005, TRUE), Quote(99125, FALSE)}

\* the "price" object of a response as the Publisher's dict.get reads it
JField(price_info, key) ==
    IF key \notin DOMAIN price_info THEN JNull
    ELSE IF key = "signature" THEN JStr(price_info[key])
    ELSE JInt(price_info[key])

EntryOf(price_info) ==
    Entry(JField(price_info, "price_uint"), JField(price_info, "signature"),
          JField(price_info, "deadline"), JField(price_info, "nonce"))

\* another client's GET /api/prices
ClientRequests(sign) ==
    /\ up
    /\ \E q \in [SecidSet -> LiveQuotes] :
         LET o == AllPricesOutcome(cache_file, current_nonce, now, sign, TRUE, q)
         IN /\ resp' = o.resp
            /\ NonceConsumed(o.nonce)
            /\ cache_file' \in IF o.store = None THEN {cache_file}
                               ELSE CacheWrites(cache_file, o.store[1], now)
    /\ UNCHANGED <<requests, now, notProvider>>

\* run_update_cycle up to the end of fetch_offchain_prices, for the one
\* registered secid: GET /api/prices/<secid>?sign=true is served by
\* get_price_for_secid and its "price" object is stored in the dict
FetchFromProvider ==
    /\ cyc_pc = "idle"
    /\ up
    /\ LET secid == RegisteredOf(SECIDS)[1]
       IN \E q \in LiveQuotes :
            LET o == PriceForSecidOutcome(cache_file, current_nonce, now, secid, TRUE, q)
            IN /\ resp' = o.resp
               /\ NonceConsumed(o.nonce)
               /\ prices' = <<[secid |-> secid, info |-> EntryOf(o.resp.prices[secid])]>>
               /\ attempted' = {secid}
    /\ discovered' = RegisteredOf(SECIDS)
    /\ cycles' = IF cycles < MaxCycles THEN cycles + 1 ELSE cycles
    /\ cyc_pc' = "process"
    /\ fetch_i' = 2
    /\ proc_i' = 1
    /\ handled' = {}
    /\ disc' = NoDiscovery
    /\ UNCHANGED <<cache_file, requests, now, last_proc, sent, aborted, chainVars>>
    /\ UNCHANGED <<up, pc, loaded, run_returned, all_returned, calls, boot, gateVars,
                   extVars>>

\* another client's GET /api/prices, without ?sign
ClientPolls ==
    /\ Len(sent) = 0
    /\ ClientRequests(FALSE)

PublisherFetches ==
    /\ Len(sent) = 0
    /\ FetchFromProvider

\* process_single_price_update with the node answering: the RPC calls succeed
\* and the transaction is mined with status 1
PublisherProcesses == ProcessWith({TRUE}, {"status_1"})

\* a second passes between two cycles
Aged(file) ==
    [file EXCEPT !.mtime = Max(@ - 1, 0), !.data.timestamp = Max(@ - 1, 0)]

SecondPasses ==
    /\ Len(sent) = 0
    /\ cyc_pc = "idle"
    /\ cache_file' = Aged(cache_file)
    /\ UNCHANGED <<resp, requests>>
    /\ UNCHANGED <<nonceVars, gateVars, clockVars, chainVars, pubVars, extVars>>

LiveInit ==
    /\ up = TRUE
    /\ current_nonce = 0
    /\ nonce_file = FileOk(0)
    /\ pc = [t \in Threads |-> "idle"]
    /\ loaded = [t \in Threads |-> 0]
    /\ run_returned = <<>>
    /\ all_returned = <<>>
    /\ persisted_max = 0
    /\ calls = 0
    /\ boot = NoBoot
    /\ threshold \in ThresholdChoices
    /\ gate_new = 0
    /\ gate_cur = None
    /\ gate_out = None
    /\ now = CACHE_TTL + 1
    /\ cache_file = CacheAbsent
    /\ resp = NoResponse
    /\ requests = 0
    /\ registry = {SECIDS[1]}
    /\ chain_price \in {[s \in SecidSet |-> c] : c \in {0, 100}}
    /\ tx_count = 0
    /\ pending = <<>>

InitLive == LiveInit /\ CycleIdle /\ ExtIdle

LiveNext ==
    \/ ClientPolls
    \/ PublisherFetches
    \/ PublisherProcesses
    \/ SecondPasses

\* Every party keeps running: the client, the cycles and the clock.  A cycle
\* that has fetched goes on to process: PublisherProcesses is enabled exactly
\* when cyc_pc is "process" and leaves it "idle", so its weak fairness is that
\* cyc_pc is again and again not "process".
CycleCompletes == []<>(cyc_pc # "process")

SpecLive ==
    /\ InitLive
    /\ [][LiveNext]_vars
    /\ WF_vars(ClientPolls)
    /\ WF_vars(PublisherFetches)
    /\ WF_vars(SecondPasses)
    /\ CycleCompletes

\* C11: with the bond's Provider price staying at least the threshold away
\* from its on-chain price and every request answered, some cycle eventually
\* submits an update transaction for the bond.
C11_UpdateEventuallySubmitted == <>(Len(sent) > 0)

\* ------------------------------ Provider and Publisher, cycle after cycle
\* The same two programs without the stop at the first transaction: other
\* clients request GET /api/prices with or without ?sign, the Publisher runs
\* cycles for the one registered bond, the node answers a transaction in any
\* way, and the clock runs.  The number of transactions and of nonces is
\* bounded.
RelayClient ==
    /\ Len(sent) < 2
    /\ current_nonce < MaxRequests
    /\ \E sign \in BOOLEAN : ClientRequests(sign)

RelayFetches ==
    /\ Len(sent) < 2
    /\ current_nonce < MaxRequests
    /\ FetchFromProvider

RelayNext ==
    \/ RelayClient
    \/ RelayFetches
    \/ ProcessSecid
    \/ MinePending
    \/ Tick(CACHE_TTL + 1 + MaxWait)

SpecRelay == InitLive /\ [][RelayNext]_vars

\* C31: over any sequence of cycles the Publisher never submits two
\* transactions that carry the same signing nonce, neither within one cycle
\* nor in different cycles.
C31_NoAttestationSubmittedTwice ==
    \A i, j \in DOMAIN sent :
        i # j => sent[i].call.nonce # sent[j].call.nonce

\* ------------------------- market_prices, get_price_detailed and get_price
\* The marketdata row of one bond as the exchange answers it: each of the six
\* price columns is missing from "columns", null, 0, or a price of its own (in
\* thousandths of a percent), so that the column a price came from shows.
PriceFields == <<"MARKETPRICE", "LAST", "LCLOSEPRICE", "WAPRICE", "PREVWAPRICE", "CLOSEPRICE">>

FieldStates == {"absent", "null", "zero", "value"}

FieldPrice(i) == 99000 + 125 * i

CandleCloses == {<<>>, <<98500>>, <<98500, 98750>>}

MarketNominals == {None, Some(1000)}

\* `data[cols.index(field)] if field in cols else None`
PriceData(row, i) ==
    IF row[i] \in {"absent", "null"} THEN None
    ELSE IF row[i] = "zero" THEN Some(0)
    ELSE Some(FieldPrice(i))

\* a scan that takes a price of 0 for no price
RECURSIVE FirstPrice_Truthy(_, _)
FirstPrice_Truthy(row, i) ==
    IF i > Len(PriceFields) THEN [price |-> None, field |-> None]
    ELSE IF PriceData(row, i) # None /\ PriceData(row, i) # Some(0)
    THEN [price |-> PriceData(row, i), field |-> Some(PriceFields[i])]
    ELSE FirstPrice_Truthy(row, i + 1)

\* market_prices, the loop `for field in [...]: if price_data.get(field) is
\* not None: return price_data[field], field`, from field i on; `return None,
\* None` after it
RECURSIVE FirstPrice(_, _)
FirstPrice(row, i) ==
    IF i > Len(PriceFields) THEN [price |-> None, field |-> None]
    ELSE IF PriceData(row, i) # None
    THEN [price |-> PriceData(row, i), field |-> Some(PriceFields[i])]
    ELSE FirstPrice(row, i + 1)

\* the absolute prices of the model's quotes, computed once
AbsoluteOf ==
    [m \in {0} \cup {FieldPrice(i) : i \in DOMAIN PriceFields} \cup {98500, 98750},
     n \in {100, 1000} |-> AbsolutePrice(m, n)]

\* get_price_detailed: the result dict, and whether daily_candles was called
GetPriceDetailed(in) ==
    LET nominal == NominalOf(in.nominal)
        market == FirstPrice(in.row, 1)
    IN IF market.price # None
       THEN [price |-> Some(AbsoluteOf[market.price[1], nominal]),
             priceSource |-> market.field, candles_asked |-> FALSE]
       ELSE IF Len(in.candles) > 0
       THEN [price |-> Some(AbsoluteOf[in.candles[Len(in.candles)], nominal]),
             priceSource |-> Some("candle"), candles_asked |-> TRUE]
       ELSE [price |-> None, priceSource |-> None, candles_asked |-> TRUE]

\* get_price: `price_info.get("priceSource") != "candle" if price is not None
\* else False`
IsCurrent(price_info) ==
    IF price_info.price # None THEN price_info.priceSource # Some("candle") ELSE FALSE

MarketInit ==
    /\ market_in \in [row : [DOMAIN PriceFields -> FieldStates], candles : CandleCloses,
                      nominal : MarketNominals]
    /\ market_out = NoMarketOut

\* get_price(secid) is called once
ReadMarket ==
    /\ ~market_out.done
    /\ LET price_info == GetPriceDetailed(market_in)
       IN market_out' = [done |-> TRUE,
                         market |-> FirstPrice(market_in.row, 1),
                         candles_asked |-> price_info.candles_asked,
                         price |-> price_info.price,
                         is_current |-> IsCurrent(price_info)]
    /\ UNCHANGED <<market_in, peeks, abiVars, quoteVars, signVars>>
    /\ UNCHANGED <<nonceVars, gateVars, clockVars, provVars, chainVars, pubVars, cacheVars,
                   scaleVars, bondVars, schedVars>>

InitMarket ==
    /\ NonceIdle /\ GateIdle /\ ProviderIdle /\ PublisherIdle
    /\ CacheIdle /\ ScaleIdle /\ BondsIdle /\ SchedulerIdle /\ QuoteIdle /\ SignIdle
    /\ PeekIdle /\ AbiIdle /\ MarketInit

MarketNext == ReadMarket

SpecMarket == InitMarket /\ [][MarketNext]_vars

\* the columns of the row that hold a price, by their place in the order
Priced == {i \in DOMAIN PriceFields : market_in.row[i] \in {"zero", "value"}}

C36_CandleFallback ==
    market_out.done =>
        /\ market_out.candles_asked <=> (Priced = {})
        /\ market_out.is_current <=> (Priced # {})
        /\ (Priced = {} /\ Len(market_in.candles) > 0) =>
              market_out.price =
                  Some(FDivInt(market_in.candles[Len(market_in.candles)], 1000))
        /\ (Priced = {} /\ Len(market_in.candles) = 0) => market_out.price = None

\* ---------------------------------- Publisher: load_abi_from_file and main
\* The file at BOND_ORACLE_ABI_PATH: missing, unreadable, not JSON, or a JSON
\* value: an array, an object with some of the keys abi, contractName and
\* bytecode (abi holding an array), a string, a number, null or a boolean.
\* `code` is whether the chain holds contract code at BOND_ORACLE_ADDRESS.
AbiEntries == {"function", "event"}

AbiLists == {<<>>} \cup {<<a>> : a \in AbiEntries} \cup {<<a, b>> : a, b \in AbiEntries}

AbiFiles ==
    {[kind |-> k, t |-> "none", keys |-> {}, items |-> <<>>, code |-> c] :
        k \in {"missing", "unreadable", "invalid"}, c \in BOOLEAN}
    \cup {[kind |-> "json", t |-> "array", keys |-> {}, items |-> l, code |-> c] :
        l \in AbiLists, c \in BOOLEAN}
    \cup {[kind |-> "json", t |-> "object", keys |-> ks,
           items |-> IF "abi" \in ks THEN l ELSE <<>>, code |-> c] :
        ks \in SUBSET {"abi", "contractName", "bytecode"}, l \in AbiLists, c \in BOOLEAN}
    \cup {[kind |-> "json", t |-> t, keys |-> {}, items |-> <<>>, code |-> c] :
        t \in {"string", "number", "null", "bool"}, c \in BOOLEAN}

\* a loader that takes any JSON object for an artifact
LoadAbiFromFile_AnyObject(file) ==
    IF file.kind = "missing" THEN [raised |-> "FileNotFoundError", abi |-> None]
    ELSE IF file.kind = "invalid" THEN [raised |-> "JSONDecodeError", abi |-> None]
    ELSE IF file.kind = "unreadable" THEN [raised |-> "ValueError", abi |-> None]
    ELSE IF file.t \in {"array", "object"} THEN [raised |-> "none", abi |-> Some(file.items)]
    ELSE [raised |-> "ValueError", abi |-> None]

\* load_abi_from_file: the list, or the exception that leaves the function.
\* FileNotFoundError and json.JSONDecodeError are re-raised as they are; any
\* other exception, the ValueError of the unrecognised format included, is
\* caught by `except Exception` and raised again as ValueError
LoadAbiFromFile(file) ==
    IF file.kind = "missing" THEN [raised |-> "FileNotFoundError", abi |-> None]
    ELSE IF file.kind = "invalid" THEN [raised |-> "JSONDecodeError", abi |-> None]
    ELSE IF file.kind = "unreadable" THEN [raised |-> "ValueError", abi |-> None]
    ELSE IF file.t = "array" THEN [raised |-> "none", abi |-> Some(file.items)]
    ELSE IF file.t = "object" /\ "abi" \in file.keys
    THEN [raised |-> "none", abi |-> Some(file.items)]
    ELSE [raised |-> "ValueError", abi |-> None]

\* ContractService._load_abi and _load_contract: each except clause logs and
\* re-raises, so the exception of the loader reaches PricePublisher.__init__
LoadContractAbi ==
    /\ abi_out.pc = "start"
    /\ abi_file # NoAbiFile
    /\ LET r == LoadAbiFromFile(abi_file)
       IN abi_out' = [pc |-> IF r.raised = "none" THEN "loaded" ELSE "raising",
                      raised |-> r.raised, abi |-> r.abi]
    /\ UNCHANGED <<abi_file, peeks, marketVars, quoteVars, signVars>>
    /\ UNCHANGED <<nonceVars, gateVars, clockVars, provVars, chainVars, pubVars, cacheVars,
                   scaleVars, bondVars, schedVars>>

\* _validate_contract_code and the contract instance: ValueError when there
\* is no code at the address, else the Publisher is initialised and main goes
\* on to the initial cycle
ValidateContractCode ==
    /\ abi_out.pc = "loaded"
    /\ abi_out' = IF abi_file.code THEN [abi_out EXCEPT !.pc = "running"]
                  ELSE [abi_out EXCEPT !.pc = "raising", !.raised = "ValueError"]
    /\ UNCHANGED <<abi_file, peeks, marketVars, quoteVars, signVars>>
    /\ UNCHANGED <<nonceVars, gateVars, clockVars, provVars, chainVars, pubVars, cacheVars,
                   scaleVars, bondVars, schedVars>>

\* main, `except Exception as e:` ... sys.exit(1)
MainExits ==
    /\ abi_out.pc = "raising"
    /\ abi_out' = [abi_out EXCEPT !.pc = "exited"]
    /\ UNCHANGED <<abi_file, peeks, marketVars, quoteVars, signVars>>
    /\ UNCHANGED <<nonceVars, gateVars, clockVars, provVars, chainVars, pubVars, cacheVars,
                   scaleVars, bondVars, schedVars>>

AbiInit ==
    /\ abi_file \in AbiFiles
    /\ abi_out = NotStarted

InitAbi ==
    /\ NonceIdle /\ GateIdle /\ ProviderIdle /\ PublisherIdle
    /\ CacheIdle /\ ScaleIdle /\ BondsIdle /\ SchedulerIdle /\ QuoteIdle /\ SignIdle
    /\ PeekIdle /\ MarketIdle /\ AbiInit

AbiNext ==
    \/ LoadContractAbi
    \/ ValidateContractCode
    \/ MainExits

SpecAbi == InitAbi /\ [][AbiNext]_vars

\* the file's JSON is a bare array or an object with an abi field
AbiShapeAccepted ==
    /\ abi_file.kind = "json"
    /\ abi_file.t = "array" \/ (abi_file.t = "object" /\ "abi" \in abi_file.keys)

\* C40: load_abi_from_file returns the ABI list exactly when the file's JSON
\* is a bare array or an object with an abi field; for every other JSON value
\* it fails with a ValueError and the Publisher's start is aborted.
C40_AbiShapes ==
    abi_out.pc # "start" =>
        /\ (abi_out.abi # None) <=> AbiShapeAccepted
        /\ AbiShapeAccepted => abi_out.abi = Some(abi_file.items)
        /\ (abi_file.kind = "json" /\ ~AbiShapeAccepted) =>
              /\ abi_out.raised = "ValueError"
              /\ abi_out.pc \in {"raising", "exited"}

\* an object with contractName and bytecode but no abi was refused and main
\* has exited
C40_Witness ==
    /\ abi_file.kind = "json"
    /\ abi_file.t = "object"
    /\ abi_file.keys = {"contractName", "bytecode"}
    /\ abi_file.code
    /\ abi_out = [pc |-> "exited", raised |-> "ValueError", abi |-> None]

\* ------------------------------------------- signature binding (symbolic)
\* The digest (keccak256) and the signing (secp256k1) are taken as ideal: a
\* signature recovers to the signer for the message it was made for and for no
\* other.  What is checked is what the code decides: which values the signed
\* struct holds, each in a word of its own.
SignedPrices == {100, 101, 356}
SignedNonces == {1, 2, 257}
SignedDeadlines == {2, 3, 258}

Attestations ==
    [secid : SecidSet, price : SignedPrices, nonce : SignedNonces,
     deadline : SignedDeadlines]

\* create_signature(secid, price, nonce, deadline): the signature bytes
SignatureOf(att) == SignMessage(att.secid, att.price, att.nonce, att.deadline)

\* updatePriceFeedWithSignature: the contract hashes the values it is given as
\* create_signature does and compares the recovered address with the signer
Recovers(att, signature_bytes) == signature_bytes = SignatureOf(att)

\* the Provider signs an attestation; it is submitted as it is
SignAttestation ==
    /\ signed = NoAttestation
    /\ signed' \in Attestations
    /\ submitted' = signed'
    /\ UNCHANGED <<quoteVars, lastVars>>
    /\ UNCHANGED <<nonceVars, gateVars, clockVars, provVars, chainVars, pubVars, cacheVars,
                   scaleVars, bondVars, schedVars>>

\* one of the four values is changed before submission
AlterSubmission ==
    /\ signed # NoAttestation
    /\ \E att \in Attestations :
         /\ Cardinality({f \in DOMAIN att : att[f] # submitted[f]}) = 1
         /\ submitted' = att
    /\ UNCHANGED <<signed, quoteVars, lastVars>>
    /\ UNCHANGED <<nonceVars, gateVars, clockVars, provVars, chainVars, pubVars, cacheVars,
                   scaleVars, bondVars, schedVars>>

InitSign == NonceIdle /\ GateIdle /\ ProviderIdle /\ PublisherIdle /\ ExtIdle

SignNext ==
    \/ SignAttestation
    \/ AlterSubmission

SpecSign == InitSign /\ [][SignNext]_vars

\* C22: a signature made by create_signature over (secid, price, nonce,
\* deadline) does not recover to the signer for values that differ from the
\* signed ones in any of the four.
C22_SignatureBinding ==
    (signed # NoAttestation /\ submitted # signed) =>
        ~Recovers(submitted, SignatureOf(signed))

\* the submitted deadline differs from the signed one, and only in a byte
\* above the lowest
C22_Witness ==
    /\ signed # NoAttestation
    /\ submitted = [signed EXCEPT !.deadline = 258]
    /\ signed.deadline = 2

\* C5: every transaction the Publisher submits carries the secid, price_uint,
\* deadline and nonce of the attestation it fetched for that secid, and the
\* bytes its hex signature encodes: the bytes the signer made for these values.
C5_TransactionCarriesAttestation ==
    \A i \in DOMAIN sent :
        LET call == sent[i].call
            att == sent[i].attested
        IN /\ call.secid = sent[i].secid
           /\ call.price_uint = att.price_uint.n
           /\ call.deadline = att.deadline.n
           /\ call.nonce = att.nonce.n
           /\ SignatureHex(call.signature_bytes) = att.signature.s
           /\ call.signature_bytes =
                  SignMessage(call.secid, call.price_uint, call.nonce, call.deadline)

\* a transaction was submitted whose nonce and deadline differ
C5_Witness ==
    \E i \in DOMAIN sent :
        /\ sent[i].call.nonce # sent[i].call.deadline
        /\ Len(sent[i].call.signature_bytes) > 0

\* C7: a transaction is submitted for a secid only if should_update_price, for
\* the attested price and the on-chain price read in that cycle, answers true.
C7_TransactionOnlyIfGateTrue ==
    \A i \in DOMAIN sent :
        ShouldUpdatePrice(sent[i].attested.price_uint.n, sent[i].onchain, threshold)

\* one secid was updated and the next one, whose gate answered false, was not
C7_Witness ==
    /\ Len(sent) > 0
    /\ last_proc.decision = "no_update"
    /\ \A i \in DOMAIN sent : sent[i].secid # last_proc.secid

\* C8: no transaction is submitted for an attestation whose deadline is at or
\* before the time at which the Publisher inspected it.
C8_NoTransactionAfterDeadline ==
    \A i \in DOMAIN sent : sent[i].attested.deadline.n > sent[i].at

\* an attestation that passed the gate was dropped as expired
C8_Witness ==
    /\ last_proc.decision = "expired"
    /\ \A i \in DOMAIN sent : sent[i].secid # last_proc.secid

\* C9: the EVM nonces of the transactions the Publisher submits are strictly
\* increasing, also after a receipt wait that timed out: no two of them share
\* a nonce.
C9_EvmNoncesStrictlyIncreasing ==
    \A i, j \in DOMAIN sent : i < j => sent[i].evm_nonce < sent[j].evm_nonce

\* C26: _send_transaction reports success only for a receipt with status 1; a
\* receipt with status 0 and a receipt timeout are errors for the caller, which
\* goes on with the next secid of the cycle, and no secid gets a second
\* transaction in the same cycle.
C26_SendReportsReceipt ==
    /\ [](/\ last_proc.report = "success" => last_proc.out = "status_1"
          /\ last_proc.out \in {"status_0", "timeout"} => last_proc.report = "error"
          /\ \A i, j \in DOMAIN sent :
                (i < j /\ sent[i].cycle = sent[j].cycle) => sent[i].secid # sent[j].secid)
    /\ [][(cyc_pc = "process" /\ proc_i' # proc_i /\ last_proc'.report = "error") =>
            /\ cyc_pc' = IF proc_i < Len(prices) THEN "process" ELSE "idle"
            /\ proc_i' = proc_i + 1
            /\ prices' = prices
            /\ aborted' = aborted]_vars

\* the transaction of the first secid was reverted, and the cycle is about to
\* process the second
C26_Witness ==
    /\ last_proc.out = "status_0"
    /\ last_proc.report = "error"
    /\ cyc_pc = "process"
    /\ proc_i = 2
    /\ Len(sent) = 1

\* C33: within a cycle the steps for one secid are all done before the signed
\* price of the next secid is requested: while the cycle is requesting
\* prices, every secid whose entry it already holds has been processed.
C33_OneSecidAtATime ==
    cyc_pc = "fetch" => \A i \in DOMAIN prices : prices[i].secid \in handled

\* C34: a secidToBond call that fails for one candidate during the
\* Publisher's discovery affects that candidate only: every other registered
\* candidate is discovered in that cycle.
C34_DiscoveryFailureIsLocal ==
    (cycles > 0 /\ disc.failed # None) =>
        \A s \in registry \ {disc.failed[1]} :
            \E i \in DOMAIN discovered : discovered[i] = s

\* C38: when the discovery returns no registered secid the cycle ends at
\* once: no price is requested from the Provider, no price feed is read and
\* no transaction is submitted in that cycle.
C38_EmptyDiscoveryEndsCycle ==
    (cycles > 0 /\ Len(discovered) = 0) =>
        /\ cyc_pc = "idle"
        /\ attempted = {}
        /\ handled = {}
        /\ \A i \in DOMAIN sent : sent[i].cycle # cycles

\* both bonds are registered, a secidToBond call of the discovery raised, and
\* the cycle is over with nothing requested, read or sent
C38_Witness ==
    /\ cycles = 1
    /\ registry = SecidSet
    /\ disc.failed # None
    /\ Len(discovered) = 0
    /\ cyc_pc = "idle"
    /\ attempted = {}
    /\ Len(sent) = 0

\* C10: an error that concerns one secid does not abort the cycle: when the
\* cycle is over every discovered secid has been asked for, and every secid
\* with an entry has been processed.
C10_ErrorDoesNotAbortCycle ==
    (cyc_pc = "idle" /\ cycles > 0) =>
        /\ \A i \in DOMAIN discovered : discovered[i] \in attempted
        /\ \A i \in DOMAIN prices : prices[i].secid \in handled

====
